---- MODULE Spec2Model ----
(***************************************************************************)
(* args-tokens: the tokenizer parseArgs (parser.ts) and the resolver       *)
(* resolveArgs (resolver.ts), modelled as one state machine.               *)
(*                                                                         *)
(* A JavaScript string is a sequence of one-character strings, so that     *)
(* charAt, slice, indexOf and includes are computed as the code computes   *)
(* them.  An optional field (name?: string) is <<>> when undefined and     *)
(* <<s>> when it holds the string s.                                       *)
(***************************************************************************)
EXTENDS Integers, Sequences, FiniteSets, TLC

\* ---------------------------------------------------------------- bounds
\* longest argv item, in characters
MaxArgLen == 5
\* most characters of one argv, all items together
MaxArgvChars == 6
\* most argv items of one call of parseArgs: one per two characters
MaxArgs == MaxArgvChars \div 2

\* ------------------------------------------------------------ characters
HYPHEN_CHAR == "-"
EQUAL_CHAR == "="
TERMINATOR == <<"-", "-">>
SHORT_OPTION_PREFIX == <<"-">>
LONG_OPTION_PREFIX == <<"-", "-">>

\* the characters argv items are made of: the two the tokenizer looks at,
\* a letter and a digit
Chars == {HYPHEN_CHAR, EQUAL_CHAR, "a", "1"}

Undefined == <<>>
Some(s) == <<s>>
IsDefined(o) == o # Undefined
Get(o) == o[1]

Min(a, b) == IF a < b THEN a ELSE b
Max(a, b) == IF a > b THEN a ELSE b

\* -------------------------------------------------- String.prototype
\* str.slice(from) and str.slice(from, to), 0-based as in the code
Slice(str, from, to) == SubSeq(str, from + 1, to)
SliceFrom(str, from) == SubSeq(str, from + 1, Len(str))

\* str.indexOf(pat, from): 0-based index of the first occurrence, -1 if none
OccursAt(str, pat, i) ==
    /\ i >= 0
    /\ i + Len(pat) <= Len(str)
    /\ \A j \in 1..Len(pat) : str[i + j] = pat[j]

IndexOf(str, pat, from) ==
    LET hits == {i \in from..Len(str) : OccursAt(str, pat, i)}
    IN  IF hits = {} THEN -1 ELSE CHOOSE i \in hits : \A j \in hits : i <= j

Includes(str, pat, from) == IndexOf(str, pat, from) # -1

StartsWith(str, pat) == OccursAt(str, pat, 0)

\* ------------------------------------------------------------ ArgToken
OptionToken(name, rawName, index, value, inlineValue) ==
    [kind |-> "option", index |-> index, name |-> name, rawName |-> rawName,
     value |-> value, inlineValue |-> inlineValue]

TerminatorToken(index) ==
    [kind |-> "option-terminator", index |-> index, name |-> Undefined,
     rawName |-> Undefined, value |-> Undefined, inlineValue |-> FALSE]

PositionalToken(index, value) ==
    [kind |-> "positional", index |-> index, name |-> Undefined,
     rawName |-> Undefined, value |-> Some(value), inlineValue |-> FALSE]

\* ------------------------------------------------- parser.ts predicates
isShortOption(arg) ==
    /\ Len(arg) = 2
    /\ arg[1] = HYPHEN_CHAR
    /\ arg[2] # HYPHEN_CHAR

isShortOptionGroup(arg) ==
    /\ Len(arg) > 2
    /\ arg[1] = HYPHEN_CHAR
    /\ arg[2] # HYPHEN_CHAR

\* arg.length > 2 && ~arg.indexOf('--'): true when '--' occurs anywhere
hasLongOptionPrefix(arg) ==
    /\ Len(arg) > 2
    /\ IndexOf(arg, LONG_OPTION_PREFIX, 0) # -1

isLongOption(arg) ==
    hasLongOptionPrefix(arg) /\ ~Includes(arg, <<EQUAL_CHAR>>, 3)

isLongOptionAndValue(arg) ==
    hasLongOptionPrefix(arg) /\ Includes(arg, <<EQUAL_CHAR>>, 3)

\* value: string | undefined
hasOptionValue(value) ==
    /\ IsDefined(value)
    /\ (Get(value) = <<>> \/ Get(value)[1] # HYPHEN_CHAR)

\* ---------------------------------------------------------------- state
VARIABLES
    args,                    \* parseArgs: the argv it was called with
    allowCompatible,         \* parseArgs: options.allowCompatible
    remainings,              \* parseArgs: the work queue
    tokens,                  \* parseArgs: the tokens emitted so far
    index,                   \* parseArgs: let index
    groupCount,              \* parseArgs: let groupCount
    hasShortValueSeparator,  \* parseArgs: let hasShortValueSeparator
    origins,                 \* history: per queue entry, the argv position it came from
    tokenArgs,               \* history: per token, the argv position it came from
    schema,                  \* resolveArgs: args, the fields in declaration order
    resolveOptions,          \* resolveArgs: shortGrouping, skipPositional, toKebab
    cursor,                  \* resolveArgs: i of the token loop, then of the field loop
    rest,                    \* resolveArgs: const rest
    optionTokens,            \* resolveArgs: const optionTokens
    positionalTokens,        \* resolveArgs: const positionalTokens
    currentLongOption,       \* resolveArgs: let currentLongOption
    currentShortOption,      \* resolveArgs: let currentShortOption
    expandableShortOptions,  \* resolveArgs: const expandableShortOptions
    terminated,              \* resolveArgs: let terminated
    sources,                 \* identity: the input token the pending long and short option objects are
    calls,                   \* history: per earlier call of resolveArgs or parseArgs, what it was given and returned
    values,                  \* resolveArgs: const values, per field
    errors,                  \* resolveArgs: const errors
    explicit,                \* resolveArgs: const explicit, per field
    actualInputNames,        \* resolveArgs: const actualInputNames, per field
    positionalsCount,        \* resolveArgs: let positionalsCount
    pc                       \* where the call stands

parserVars == <<args, allowCompatible, remainings, tokens, index, groupCount,
                hasShortValueSeparator, origins, tokenArgs>>

\* the variables of parseArgs but the token list it returned
parserLocals == <<args, allowCompatible, remainings, index, groupCount,
                  hasShortValueSeparator, origins, tokenArgs>>

analyzeVars == <<rest, optionTokens, positionalTokens, currentLongOption,
                 currentShortOption, expandableShortOptions, terminated, sources>>

fieldVars == <<values, errors, explicit, actualInputNames, positionalsCount>>

resolverVars == <<schema, resolveOptions, cursor, rest, optionTokens, positionalTokens,
                  currentLongOption, currentShortOption, expandableShortOptions,
                  terminated, sources, calls, values, errors, explicit,
                  actualInputNames, positionalsCount>>

vars == <<args, allowCompatible, remainings, tokens, index, groupCount,
          hasShortValueSeparator, origins, tokenArgs, schema, resolveOptions,
          cursor, rest, optionTokens, positionalTokens, currentLongOption,
          currentShortOption, expandableShortOptions, terminated, sources, calls,
          values, errors, explicit, actualInputNames, positionalsCount, pc>>

\* ------------------------------------------------------------- inputs
RECURSIVE SumOf(_)
SumOf(lens) == IF lens = <<>> THEN 0 ELSE Head(lens) + SumOf(Tail(lens))

\* the item lengths of every argv of at most MaxArgs items, each of at most
\* MaxArgLen characters, of at most MaxArgvChars characters together
ArgvShapes ==
    {lens \in UNION {[1..n -> 0..MaxArgLen] : n \in 0..MaxArgs} :
        SumOf(lens) <= MaxArgvChars}

RECURSIVE SplitBy(_, _)
\* the argv whose items have the lengths lens and whose characters, in
\* order, are flat
SplitBy(flat, lens) ==
    IF lens = <<>> THEN <<>>
    ELSE <<SubSeq(flat, 1, Head(lens))>> \o
         SplitBy(SubSeq(flat, Head(lens) + 1, Len(flat)), Tail(lens))

\* ----------------------------------------------------------- parseArgs
\* the head of the loop body: shift, then groupCount-- or index++
ShiftedGroupCount == IF groupCount > 0 THEN groupCount - 1 ELSE groupCount
\* mutant: the items of a group are numbered by their place in the group
ShiftedIndexInGroup == IF groupCount > 0 THEN groupCount - 1 ELSE index + 1
ShiftedIndex == IF groupCount > 0 THEN index ELSE index + 1

ParseStart(argv, compatible) ==
    /\ args = argv
    /\ allowCompatible = compatible
    /\ remainings = argv
    /\ tokens = <<>>
    /\ index = -1
    /\ groupCount = 0
    /\ hasShortValueSeparator = FALSE
    /\ origins = [k \in 1..Len(argv) |-> k - 1]
    /\ tokenArgs = <<>>

\* mutant: the index is raised once, not once per item
RestAsPositionalsOneIndex(rest1, idx) ==
    [j \in 1..Len(rest1) |-> PositionalToken(idx + 1, rest1[j])]

\* remainings.map(arg => ({ kind: 'positional', index: ++index, value: arg }))
RestAsPositionals(rest1, idx) ==
    [j \in 1..Len(rest1) |-> PositionalToken(idx + j, rest1[j])]

\* arg === TERMINATOR
ParseTerminator ==
    /\ pc = "parseArgs"
    /\ remainings # <<>>
    /\ Head(remainings) = TERMINATOR
    /\ LET rest1 == Tail(remainings)
           idx == ShiftedIndex
       IN  /\ tokens' = tokens \o <<TerminatorToken(idx)>> \o
                        RestAsPositionals(rest1, idx)
           /\ tokenArgs' = tokenArgs \o <<Head(origins)>> \o Tail(origins)
           /\ index' = idx + Len(rest1)
           /\ remainings' = rest1
           /\ origins' = Tail(origins)
    /\ groupCount' = ShiftedGroupCount
    /\ pc' = "tokenized"
    /\ UNCHANGED <<args, allowCompatible, hasShortValueSeparator>>
    /\ UNCHANGED resolverVars

\* isShortOption(arg)
ParseShortOption ==
    /\ pc = "parseArgs"
    /\ remainings # <<>>
    /\ LET arg == Head(remainings)
           rest1 == Tail(remainings)
           nextArg == IF rest1 = <<>> THEN Undefined ELSE Some(Head(rest1))
           gc == ShiftedGroupCount
           idx == ShiftedIndex
           named == OptionToken(Some(<<arg[2]>>), Some(arg), idx, Undefined, FALSE)
           takesValue == gc = 1 /\ hasOptionValue(nextArg)
       IN  /\ arg # TERMINATOR
           /\ isShortOption(arg)
           /\ IF gc # 0 /\ takesValue
              THEN /\ tokens' = tokens \o
                        <<named,
                          OptionToken(Undefined, Undefined, idx, nextArg,
                                      hasShortValueSeparator)>>
                   /\ tokenArgs' = tokenArgs \o <<Head(origins), Head(Tail(origins))>>
                   /\ remainings' = Tail(rest1)
                   /\ origins' = Tail(Tail(origins))
                   /\ hasShortValueSeparator' = FALSE
                   /\ index' = idx + 1
              ELSE /\ tokens' = tokens \o <<named>>
                   /\ tokenArgs' = tokenArgs \o <<Head(origins)>>
                   /\ remainings' = rest1
                   /\ origins' = Tail(origins)
                   /\ index' = idx
                   /\ UNCHANGED hasShortValueSeparator
           /\ groupCount' = gc
    /\ UNCHANGED <<args, allowCompatible, pc>>
    /\ UNCHANGED resolverVars

RECURSIVE ExpandGroupSplitting(_, _, _)
\* mutant: `=` separates the value in compatibility mode too
ExpandGroupSplitting(arg, i, st) ==
    IF i >= Len(arg) THEN st
    ELSE LET shortableOption == arg[i + 1]
         IN  ExpandGroupSplitting(arg, i + 1,
                IF st.sep
                THEN [st EXCEPT !.shortValue = @ \o <<shortableOption>>]
                ELSE IF shortableOption = EQUAL_CHAR
                     THEN [st EXCEPT !.sep = TRUE]
                     ELSE [st EXCEPT !.expanded =
                              @ \o <<SHORT_OPTION_PREFIX \o <<shortableOption>>>>])

RECURSIVE ExpandGroup(_, _, _)
\* the for loop over the characters of a short group, from 0-based i on:
\* st = [sep, expanded, shortValue]
ExpandGroup(arg, i, st) ==
    IF i >= Len(arg) THEN st
    ELSE LET shortableOption == arg[i + 1]
         IN  ExpandGroup(arg, i + 1,
                IF st.sep
                THEN [st EXCEPT !.shortValue = @ \o <<shortableOption>>]
                ELSE IF ~allowCompatible /\ shortableOption = EQUAL_CHAR
                     THEN [st EXCEPT !.sep = TRUE]
                     ELSE [st EXCEPT !.expanded =
                              @ \o <<SHORT_OPTION_PREFIX \o <<shortableOption>>>>])

\* mutant: the group is put back on the queue as it is
ExpandedGroupRequeued(arg) ==
    [expanded |-> <<arg>>, sep |-> hasShortValueSeparator]

\* the strings a short group puts back on the front of the queue, and the
\* separator flag it leaves behind
ExpandedGroup(arg) ==
    LET st == ExpandGroup(arg, 1, [sep |-> hasShortValueSeparator,
                                   expanded |-> <<>>, shortValue |-> <<>>])
    IN  [expanded |-> IF st.shortValue # <<>>
                      THEN st.expanded \o <<st.shortValue>>
                      ELSE st.expanded,
         sep |-> st.sep]

\* isShortOptionGroup(arg)
ParseShortOptionGroup ==
    /\ pc = "parseArgs"
    /\ remainings # <<>>
    /\ LET arg == Head(remainings)
           st == ExpandedGroup(arg)
           expanded == st.expanded
       IN  /\ arg # TERMINATOR
           /\ ~isShortOption(arg)
           /\ isShortOptionGroup(arg)
           /\ remainings' = expanded \o Tail(remainings)
           /\ origins' = [j \in 1..Len(expanded) |-> Head(origins)] \o Tail(origins)
           /\ groupCount' = Len(expanded)
           /\ hasShortValueSeparator' = st.sep
    /\ index' = ShiftedIndex
    /\ UNCHANGED <<args, allowCompatible, tokens, tokenArgs, pc>>
    /\ UNCHANGED resolverVars

\* isLongOption(arg)
ParseLongOption ==
    /\ pc = "parseArgs"
    /\ remainings # <<>>
    /\ LET arg == Head(remainings)
       IN  /\ arg # TERMINATOR
           /\ ~isShortOption(arg)
           /\ ~isShortOptionGroup(arg)
           /\ isLongOption(arg)
           /\ tokens' = tokens \o
                <<OptionToken(Some(SliceFrom(arg, 2)), Some(arg), ShiftedIndex,
                              Undefined, FALSE)>>
    /\ tokenArgs' = tokenArgs \o <<Head(origins)>>
    /\ remainings' = Tail(remainings)
    /\ origins' = Tail(origins)
    /\ index' = ShiftedIndex
    /\ groupCount' = ShiftedGroupCount
    /\ UNCHANGED <<args, allowCompatible, hasShortValueSeparator, pc>>
    /\ UNCHANGED resolverVars

\* mutant: arg.lastIndexOf(EQUAL_CHAR)
LastEqualIndex(arg) ==
    LET hits == {i \in 0..Len(arg) : OccursAt(arg, <<EQUAL_CHAR>>, i)}
    IN  IF hits = {} THEN -1 ELSE CHOOSE i \in hits : \A j \in hits : i >= j

\* arg.indexOf(EQUAL_CHAR)
EqualIndex(arg) == IndexOf(arg, <<EQUAL_CHAR>>, 0)

\* isLongOptionAndValue(arg)
ParseLongOptionAndValue ==
    /\ pc = "parseArgs"
    /\ remainings # <<>>
    /\ LET arg == Head(remainings)
           equalIndex == EqualIndex(arg)
           longOption == Slice(arg, 2, equalIndex)
           value == SliceFrom(arg, equalIndex + 1)
       IN  /\ arg # TERMINATOR
           /\ ~isShortOption(arg)
           /\ ~isShortOptionGroup(arg)
           /\ ~isLongOption(arg)
           /\ isLongOptionAndValue(arg)
           /\ tokens' = tokens \o
                <<OptionToken(Some(longOption), Some(LONG_OPTION_PREFIX \o longOption),
                              ShiftedIndex, Some(value), TRUE)>>
    /\ tokenArgs' = tokenArgs \o <<Head(origins)>>
    /\ remainings' = Tail(remainings)
    /\ origins' = Tail(origins)
    /\ index' = ShiftedIndex
    /\ groupCount' = ShiftedGroupCount
    /\ UNCHANGED <<args, allowCompatible, hasShortValueSeparator, pc>>
    /\ UNCHANGED resolverVars

\* none of the above: a positional
ParsePositional ==
    /\ pc = "parseArgs"
    /\ remainings # <<>>
    /\ LET arg == Head(remainings)
       IN  /\ arg # TERMINATOR
           /\ ~isShortOption(arg)
           /\ ~isShortOptionGroup(arg)
           /\ ~isLongOption(arg)
           /\ ~isLongOptionAndValue(arg)
           /\ tokens' = tokens \o <<PositionalToken(ShiftedIndex, arg)>>
    /\ tokenArgs' = tokenArgs \o <<Head(origins)>>
    /\ remainings' = Tail(remainings)
    /\ origins' = Tail(origins)
    /\ index' = ShiftedIndex
    /\ groupCount' = ShiftedGroupCount
    /\ UNCHANGED <<args, allowCompatible, hasShortValueSeparator, pc>>
    /\ UNCHANGED resolverVars

\* while (remainings.length > 0) fails: return tokens
ParseReturn ==
    /\ pc = "parseArgs"
    /\ remainings = <<>>
    /\ pc' = "tokenized"
    /\ UNCHANGED parserVars
    /\ UNCHANGED resolverVars

ParseStep ==
    \/ ParseTerminator
    \/ ParseShortOption
    \/ ParseShortOptionGroup
    \/ ParseLongOption
    \/ ParseLongOptionAndValue
    \/ ParsePositional
    \/ ParseReturn

\* ============================================================ resolver
\* ------------------------------------------------------------ JS values
\* a value of values[...]: one record shape for every JS type
UndefinedValue == [t |-> "undefined", s |-> <<>>, n |-> 0, b |-> FALSE, items |-> <<>>]
StringValue(str) == [t |-> "string", s |-> str, n |-> 0, b |-> FALSE, items |-> <<>>]
NumberValue(num) == [t |-> "number", s |-> <<>>, n |-> num, b |-> FALSE, items |-> <<>>]
BooleanValue(bool) == [t |-> "boolean", s |-> <<>>, n |-> 0, b |-> bool, items |-> <<>>]
ArrayValue(elems) == [t |-> "array", s |-> <<>>, n |-> 0, b |-> FALSE, items |-> elems]
\* what a schema's parse callback returns for the string str
ParsedValue(str) == [t |-> "parsed", s |-> str, n |-> 0, b |-> FALSE, items |-> <<>>]

\* string | undefined, as a value
OptionalValue(o) == IF IsDefined(o) THEN StringValue(Get(o)) ELSE UndefinedValue

\* v == null
IsNullish(v) == v.t = "undefined"

\* !v
IsFalsy(v) ==
    \/ v.t = "undefined"
    \/ v.t = "string" /\ v.s = <<>>
    \/ v.t = "number" /\ v.n = 0
    \/ v.t = "boolean" /\ ~v.b

Digits == <<"0", "1", "2", "3", "4", "5", "6", "7", "8", "9">>

IsDigit(c) == \E d \in 1..10 : Digits[d] = c

DigitOf(c) == (CHOOSE d \in 1..10 : Digits[d] = c) - 1

RECURSIVE NaturalOf(_)
\* the number a string of digits denotes
NaturalOf(str) ==
    IF str = <<>> THEN 0
    ELSE 10 * NaturalOf(SubSeq(str, 1, Len(str) - 1)) + DigitOf(str[Len(str)])

RECURSIVE DigitsOf(_)
\* String(n) for a natural number n
DigitsOf(num) ==
    IF num < 10 THEN <<Digits[num + 1]>>
    ELSE DigitsOf(num \div 10) \o <<Digits[(num % 10) + 1]>>

\* String(v), for the values a schema default holds here
StringOf(v) ==
    CASE v.t = "string" -> v.s
      [] v.t = "number" -> IF v.n < 0 THEN <<HYPHEN_CHAR>> \o DigitsOf(-v.n)
                           ELSE DigitsOf(v.n)
      [] v.t = "boolean" -> IF v.b THEN <<"t", "r", "u", "e">>
                            ELSE <<"f", "a", "l", "s", "e">>
      [] OTHER -> <<>>

\* isNumeric(str): str.trim() !== '' && !isNaN(str), for strings made of the
\* model's characters (hyphen, equal sign, digits, and letters that spell no
\* numeric literal): an optional `-` and then digits only
isNumeric(str) ==
    LET body == IF str # <<>> /\ str[1] = HYPHEN_CHAR THEN Tail(str) ELSE str
    IN  /\ body # <<>>
        /\ \A j \in 1..Len(body) : IsDigit(body[j])

\* +str, for a numeric str
ToNumber(str) ==
    IF str[1] = HYPHEN_CHAR THEN -NaturalOf(Tail(str)) ELSE NaturalOf(str)

\* --------------------------------------------------------------- utils
UpperCase == <<"A", "B", "C">>
LowerCase == <<"a", "b", "c">>

IsUpper(c) == \E u \in 1..Len(UpperCase) : UpperCase[u] = c

ToLower(c) == LowerCase[CHOOSE u \in 1..Len(UpperCase) : UpperCase[u] = c]

RECURSIVE KebabFrom(_, _)
KebabFrom(str, offset) ==
    IF offset >= Len(str) THEN <<>>
    ELSE LET c == str[offset + 1]
         IN  (IF IsUpper(c)
              THEN (IF offset > 0 THEN <<HYPHEN_CHAR>> ELSE <<>>) \o <<ToLower(c)>>
              ELSE <<c>>) \o KebabFrom(str, offset + 1)

\* str.replace(/[A-Z]/g, (match, offset) => (offset > 0 ? '-' : '') + match.toLowerCase())
kebabnize(str) == KebabFrom(str, 0)

\* ------------------------------------------------------------ ArgSchema
\* one entry of args: its key and its ArgSchema
ArgSchema(key, type, short, required, multiple, negatable, choices, default, kebab, conflicts, parse) ==
    [key |-> key, type |-> type, short |-> short, required |-> required,
     multiple |-> multiple, negatable |-> negatable, choices |-> choices,
     default |-> default, toKebab |-> kebab, conflicts |-> conflicts,
     parse |-> parse]

NO_PREFIX == <<"n", "o", "-">>

SKIP_POSITIONAL_DEFAULT == -1

\* the parse callbacks a schema is given here: "wrap" returns a value made
\* from its input, "throws" always throws, "picky" throws unless its input
\* is numeric; "none" is no callback
ParseThrows(parse, str) ==
    \/ parse = "throws"
    \/ parse = "picky" /\ ~isNumeric(str)

\* the error a parse callback throws for the input str
ThrownError(f, str) ==
    [type |-> "thrown", field |-> f, name |-> str, message |-> <<>>]

\* new ArgResolveError(message, name, type, schema): field is the position
\* of schema in args, message the option names the message is built from
ArgResolveError(message, name, type, f) ==
    [type |-> type, field |-> f, name |-> name, message |-> message]

\* ------------------------------------------------ resolveArgs: analyze
\* args[name]: the position of the field whose key is name, 0 if none
FieldOfKey(name) ==
    IF \E f \in 1..Len(schema) : schema[f].key = name
    THEN CHOOSE f \in 1..Len(schema) : schema[f].key = name
    ELSE 0

\* toShortValue(): the joined names of the buffered tokens, undefined if none
JoinedNames(buffer) ==
    LET F[j \in 0..Len(buffer)] ==
            IF j = 0 THEN <<>> ELSE F[j - 1] \o Get(buffer[j].name)
    IN  IF buffer = <<>> THEN Undefined ELSE Some(F[Len(buffer)])

\* mutant: the input token itself is kept, not a copy of it
SameObject(i) == [object |-> tokens[i], source |-> i]

\* { ...token }: a new object with the fields of input token i; it is none
\* of the input objects (source 0)
Spread(i) == [object |-> tokens[i], source |-> 0]

\* object.value = value as the input list sees it: input token `source` is
\* written when the object is one of the input tokens
WriteValue(list, source, value) ==
    IF source = 0 THEN list ELSE [list EXCEPT ![source].value = value]

analyzeState ==
    [tokens |-> tokens, sources |-> sources,
     rest |-> rest, optionTokens |-> optionTokens,
     positionalTokens |-> positionalTokens,
     currentLongOption |-> currentLongOption,
     currentShortOption |-> currentShortOption,
     expandableShortOptions |-> expandableShortOptions,
     terminated |-> terminated]

\* mutant: the pending long option is pushed only when a value is given
applyLongOptionValueGiven(st, value) ==
    IF IsDefined(st.currentLongOption) /\ IsDefined(value)
    THEN [st EXCEPT
            !.tokens = WriteValue(@, st.sources.long, value),
            !.optionTokens = @ \o <<[Get(st.currentLongOption) EXCEPT !.value = value]>>,
            !.currentLongOption = Undefined,
            !.sources.long = 0]
    ELSE st

applyLongOptionValue(st, value) ==
    IF IsDefined(st.currentLongOption)
    THEN [st EXCEPT
            !.tokens = WriteValue(@, st.sources.long, value),
            !.optionTokens = @ \o <<[Get(st.currentLongOption) EXCEPT !.value = value]>>,
            !.currentLongOption = Undefined,
            !.sources.long = 0]
    ELSE st

\* value || toShortValue()
applyShortOptionValue(st, value) ==
    IF IsDefined(st.currentShortOption)
    THEN IF IsDefined(value) /\ Get(value) # <<>>
         THEN [st EXCEPT
                 !.tokens = WriteValue(@, st.sources.short, value),
                 !.optionTokens =
                    @ \o <<[Get(st.currentShortOption) EXCEPT !.value = value]>>,
                 !.currentShortOption = Undefined,
                 !.sources.short = 0]
         ELSE [st EXCEPT
                 !.tokens = WriteValue(@, st.sources.short,
                                       JoinedNames(st.expandableShortOptions)),
                 !.optionTokens =
                    @ \o <<[Get(st.currentShortOption) EXCEPT
                              !.value = JoinedNames(st.expandableShortOptions)]>>,
                 !.expandableShortOptions = <<>>,
                 !.currentShortOption = Undefined,
                 !.sources.short = 0]
    ELSE st

\* token.kind === 'positional'
AnalyzePositionalToken(st, token) ==
    IF st.terminated /\ Get(token.value) # <<>>
    THEN [st EXCEPT !.rest = @ \o <<Get(token.value)>>]
    ELSE IF IsDefined(st.currentShortOption)
    THEN IF \E f \in 1..Len(schema) :
                /\ schema[f].short = Get(st.currentShortOption).name
                /\ schema[f].type = "boolean"
         THEN applyShortOptionValue(
                 [st EXCEPT !.positionalTokens = @ \o <<token>>], Undefined)
         ELSE applyShortOptionValue(st, token.value)
    ELSE IF IsDefined(st.currentLongOption)
    THEN IF /\ FieldOfKey(Get(Get(st.currentLongOption).name)) # 0
            /\ schema[FieldOfKey(Get(Get(st.currentLongOption).name))].type = "boolean"
         THEN applyLongOptionValue(
                 [st EXCEPT !.positionalTokens = @ \o <<token>>], Undefined)
         ELSE applyLongOptionValue(st, token.value)
    ELSE [st EXCEPT !.positionalTokens = @ \o <<token>>]

\* mutant: the pending short option is replaced and never pushed
GroupedShortOptionReplaced(st, token) ==
    [st EXCEPT
       !.currentShortOption = Some(Spread(cursor + 1).object),
       !.sources.short = Spread(cursor + 1).source]

\* shortGrouping, and the token has the index of the pending short option:
\* the pending one is pushed with the value of the token, which is pending
\* from then on
GroupedShortOption(st, token) ==
    [st EXCEPT
       !.tokens = WriteValue(@, st.sources.short, token.value),
       !.optionTokens =
          @ \o <<[Get(st.currentShortOption) EXCEPT !.value = token.value]>>,
       !.currentShortOption = Some(Spread(cursor + 1).object),
       !.sources.short = Spread(cursor + 1).source]

\* token.kind === 'option' with a rawName
AnalyzeNamedToken(st, token) ==
    IF hasLongOptionPrefix(Get(token.rawName))
    THEN LET flushed == applyLongOptionValue(st, Undefined)
             taken == IF token.inlineValue
                      THEN [flushed EXCEPT !.optionTokens = @ \o <<token>>]
                      ELSE [flushed EXCEPT
                              !.currentLongOption = Some(Spread(cursor + 1).object),
                              !.sources.long = Spread(cursor + 1).source]
         IN  applyShortOptionValue(taken, Undefined)
    ELSE IF isShortOption(Get(token.rawName))
    THEN IF IsDefined(st.currentShortOption)
         THEN LET current == Get(st.currentShortOption)
              IN  applyLongOptionValue(
                     IF current.index = token.index
                     THEN IF resolveOptions.shortGrouping
                          THEN GroupedShortOption(st, token)
                          ELSE [st EXCEPT !.expandableShortOptions = @ \o <<token>>]
                     ELSE [st EXCEPT
                             !.tokens = WriteValue(@, st.sources.short,
                                                   JoinedNames(st.expandableShortOptions)),
                             !.optionTokens =
                                @ \o <<[current EXCEPT
                                          !.value = JoinedNames(st.expandableShortOptions)]>>,
                             !.expandableShortOptions = <<>>,
                             !.currentShortOption = Some(Spread(cursor + 1).object),
                             !.sources.short = Spread(cursor + 1).source],
                     Undefined)
         ELSE applyLongOptionValue(
                 [st EXCEPT
                    !.currentShortOption = Some(Spread(cursor + 1).object),
                    !.sources.short = Spread(cursor + 1).source],
                 Undefined)
    ELSE st

\* token.kind === 'option' without a rawName: the value of a short option
AnalyzeValueToken(st, token) ==
    applyLongOptionValue(
        IF /\ IsDefined(st.currentShortOption)
           /\ Get(st.currentShortOption).index = token.index
           /\ token.inlineValue
        THEN [st EXCEPT
                !.tokens = WriteValue(@, st.sources.short, token.value),
                !.optionTokens =
                   @ \o <<[Get(st.currentShortOption) EXCEPT !.value = token.value]>>,
                !.currentShortOption = Undefined,
                !.sources.short = 0]
        ELSE st,
        Undefined)

\* token.kind === 'option-terminator'
AnalyzeTerminatorToken(st) ==
    applyShortOptionValue(
        applyLongOptionValue([st EXCEPT !.terminated = TRUE], Undefined), Undefined)

\* the analyze variables take the fields of st
AnalyzeInto(st) ==
    /\ tokens' = st.tokens
    /\ sources' = st.sources
    /\ rest' = st.rest
    /\ optionTokens' = st.optionTokens
    /\ positionalTokens' = st.positionalTokens
    /\ currentLongOption' = st.currentLongOption
    /\ currentShortOption' = st.currentShortOption
    /\ expandableShortOptions' = st.expandableShortOptions
    /\ terminated' = st.terminated

\* resolveArgs is entered with the tokens parseArgs returned
ResolveStart ==
    /\ pc = "tokenized"
    /\ pc' = "analyze"
    /\ cursor' = 0
    /\ calls' = Append(calls, [tokens |-> tokens, schema |-> schema, result |-> Undefined])
    /\ UNCHANGED parserVars
    /\ UNCHANGED <<schema, resolveOptions>>
    /\ UNCHANGED analyzeVars
    /\ UNCHANGED fieldVars

AnalyzeStep(kind, named, st) ==
    /\ pc = "analyze"
    /\ cursor < Len(tokens)
    /\ tokens[cursor + 1].kind = kind
    /\ IsDefined(tokens[cursor + 1].rawName) = named
    /\ AnalyzeInto(st)
    /\ cursor' = cursor + 1
    /\ UNCHANGED parserLocals
    /\ UNCHANGED <<schema, resolveOptions, calls, pc>>
    /\ UNCHANGED fieldVars

AnalyzePositional ==
    AnalyzeStep("positional", FALSE,
                AnalyzePositionalToken(analyzeState, tokens[cursor + 1]))

AnalyzeNamedOption ==
    AnalyzeStep("option", TRUE, AnalyzeNamedToken(analyzeState, tokens[cursor + 1]))

AnalyzeValueOption ==
    AnalyzeStep("option", FALSE, AnalyzeValueToken(analyzeState, tokens[cursor + 1]))

AnalyzeTerminator ==
    AnalyzeStep("option-terminator", FALSE, AnalyzeTerminatorToken(analyzeState))

\* after the loop: the last long or short option is flushed
AnalyzeEnd ==
    /\ pc = "analyze"
    /\ cursor = Len(tokens)
    /\ AnalyzeInto(applyShortOptionValue(
                      applyLongOptionValue(analyzeState, Undefined), Undefined))
    /\ cursor' = 0
    /\ pc' = "resolve"
    /\ UNCHANGED parserLocals
    /\ UNCHANGED <<schema, resolveOptions, calls>>
    /\ UNCHANGED fieldVars

\* ------------------------------------------- resolveArgs: the fields
\* toKebab || schema.toKebab ? kebabnize(rawArg) : rawArg
ArgName(f) ==
    IF resolveOptions.toKebab \/ schema[f].toKebab
    THEN kebabnize(schema[f].key)
    ELSE schema[f].key

createRequireError(option, f) ==
    ArgResolveError(<<option>>, option, "required", f)

createTypeError(option, f) ==
    ArgResolveError(<<option>>, option, "type", f)

\* Math.max(skipPositional, SKIP_POSITIONAL_DEFAULT)
skipPositionalIndex == Max(resolveOptions.skipPositional, SKIP_POSITIONAL_DEFAULT)

positionalItemCount ==
    Cardinality({j \in 1..Len(tokens) : tokens[j].kind = "positional"})

\* mutant: the entry at skipPositional itself is the first one bound
getPositionalSkipIndexBefore == Min(skipPositionalIndex, positionalItemCount) - 1

getPositionalSkipIndex == Min(skipPositionalIndex, positionalItemCount)

fieldState ==
    [values |-> values, errors |-> errors, explicit |-> explicit,
     actualInputNames |-> actualInputNames, positionalsCount |-> positionalsCount,
     threw |-> FALSE]

\* mutant: the first error thrown ends the loop over the remaining values
ParsedPositionalsUntilThrown(f, remaining) ==
    LET F[j \in 0..Len(remaining)] ==
            IF j = 0 THEN [parsed |-> <<>>, thrown |-> <<>>]
            ELSE LET str == Get(remaining[j].value)
                 IN  IF F[j - 1].thrown # <<>> THEN F[j - 1]
                     ELSE IF ParseThrows(schema[f].parse, str)
                     THEN [F[j - 1] EXCEPT !.thrown = @ \o <<ThrownError(f, str)>>]
                     ELSE [F[j - 1] EXCEPT !.parsed = @ \o <<ParsedValue(str)>>]
    IN  F[Len(remaining)]

\* the values a `multiple` positional field parses, and the errors thrown
ParsedPositionals(f, remaining) ==
    LET F[j \in 0..Len(remaining)] ==
            IF j = 0 THEN [parsed |-> <<>>, thrown |-> <<>>]
            ELSE LET str == Get(remaining[j].value)
                 IN  IF ParseThrows(schema[f].parse, str)
                     THEN [F[j - 1] EXCEPT !.thrown = @ \o <<ThrownError(f, str)>>]
                     ELSE [F[j - 1] EXCEPT !.parsed = @ \o <<ParsedValue(str)>>]
    IN  F[Len(remaining)]

\* mutant: a `multiple` positional field takes every entry, bound or not
allPositionals(count) == positionalTokens

\* positionalTokens.slice(positionalsCount)
remainingPositionals(count) == SubSeq(positionalTokens, count + 1, Len(positionalTokens))

\* schema.type === 'positional'
ResolvePositional(fs, f) ==
    LET sch == schema[f]
        count == IF skipPositionalIndex > SKIP_POSITIONAL_DEFAULT
                 THEN Max(fs.positionalsCount, getPositionalSkipIndex + 1)
                 ELSE fs.positionalsCount
        remaining == remainingPositionals(count)
        init == [fs EXCEPT !.explicit[f] = FALSE, !.positionalsCount = count]
    IN  IF sch.multiple
        THEN IF Len(remaining) > 0
             THEN LET got == ParsedPositionals(f, remaining)
                  IN  [init EXCEPT
                         !.values[f] =
                            IF sch.parse # "none" THEN ArrayValue(got.parsed)
                            ELSE ArrayValue([j \in 1..Len(remaining) |->
                                                StringValue(Get(remaining[j].value))]),
                         !.errors = IF sch.parse # "none" THEN @ \o got.thrown ELSE @,
                         !.positionalsCount = count + Len(remaining),
                         !.explicit[f] = TRUE]
             ELSE IF sch.required
                  THEN [init EXCEPT !.errors = @ \o <<createRequireError(ArgName(f), f)>>]
                  ELSE init
        ELSE IF count < Len(positionalTokens)
             THEN LET str == Get(positionalTokens[count + 1].value)
                  IN  IF sch.parse # "none"
                      THEN IF ParseThrows(sch.parse, str)
                           THEN [init EXCEPT
                                   !.errors = @ \o <<ThrownError(f, str)>>,
                                   !.explicit[f] = TRUE,
                                   !.positionalsCount = count + 1]
                           ELSE [init EXCEPT
                                   !.values[f] = ParsedValue(str),
                                   !.explicit[f] = TRUE,
                                   !.positionalsCount = count + 1]
                      ELSE [init EXCEPT
                              !.values[f] = StringValue(str),
                              !.explicit[f] = TRUE,
                              !.positionalsCount = count + 1]
             ELSE [init EXCEPT
                     !.errors = @ \o <<createRequireError(ArgName(f), f)>>,
                     !.positionalsCount = count + 1]

\* schema.negatable && token.name.startsWith('no-')
IsNegated(f, token) ==
    schema[f].negatable /\ StartsWith(Get(token.name), NO_PREFIX)

checkTokenName(option, f, token) ==
    token.name = Some(IF schema[f].type = "boolean" /\ IsNegated(f, token)
                      THEN NO_PREFIX \o option
                      ELSE option)

\* the condition of the match loop
TokenMatches(option, f, token) ==
    \/ /\ IsDefined(token.name)
       /\ checkTokenName(option, f, token)
       /\ IsDefined(token.rawName)
       /\ hasLongOptionPrefix(Get(token.rawName))
    \/ /\ schema[f].short = token.name
       /\ IsDefined(token.rawName)
       /\ isShortOption(Get(token.rawName))

\* the condition of optionTokens.find in the required check
TokenFound(option, f, token) ==
    \/ IsDefined(schema[f].short) /\ token.name = schema[f].short
    \/ /\ IsDefined(token.rawName)
       /\ hasLongOptionPrefix(Get(token.rawName))
       /\ token.name = Some(option)

\* schema.required && schema.type !== 'boolean' && !token.value
validateRequire(token, f) ==
    /\ schema[f].required
    /\ schema[f].type # "boolean"
    /\ (~IsDefined(token.value) \/ Get(token.value) = <<>>)

\* token.value || schema.default
ValueOrDefault(token, f) ==
    IF IsDefined(token.value) /\ Get(token.value) # <<>>
    THEN StringValue(Get(token.value))
    ELSE schema[f].default

ParseOk(v) == [value |-> v, error |-> <<>>, threw |-> FALSE]
ParseError(err) == [value |-> UndefinedValue, error |-> <<err>>, threw |-> FALSE]
ParseThrew == [value |-> UndefinedValue, error |-> <<>>, threw |-> TRUE]

\* isNumeric(token.value!): undefined.trim() throws a TypeError
parseNumber(token, option, f) ==
    IF ~IsDefined(token.value) THEN ParseThrew
    ELSE IF ~isNumeric(Get(token.value)) THEN ParseError(createTypeError(option, f))
    ELSE ParseOk(NumberValue(ToNumber(Get(token.value))))

\* the choices hold token.value: schema.choices.includes(token.value!)
IsChoice(token, f) ==
    /\ IsDefined(token.value)
    /\ \E c \in 1..Len(Get(schema[f].choices)) :
          Get(schema[f].choices)[c] = Get(token.value)

\* the Type error of an enum field: its message lists the choices
createChoiceError(option, f) ==
    ArgResolveError(<<option>> \o Get(schema[f].choices), option, "type", f)

\* mutant: a token without a value is tested by the default of the field
parseEnumByDefault(token, option, f) ==
    IF /\ IsDefined(schema[f].choices)
       /\ ~IsChoice(token, f)
       /\ ~(~IsDefined(token.value) /\ ~IsNullish(schema[f].default))
    THEN ParseError(createChoiceError(option, f))
    ELSE ParseOk(ValueOrDefault(token, f))

\* case 'enum'
parseEnum(token, option, f) ==
    IF IsDefined(schema[f].choices) /\ ~IsChoice(token, f)
    THEN ParseError(createChoiceError(option, f))
    ELSE ParseOk(ValueOrDefault(token, f))

\* case 'boolean'
parseBoolean(token, f) == ParseOk(BooleanValue(~IsNegated(f, token)))

\* typeof schema.parse === 'function': the callback is given the string of
\* the negation state of a Boolean, the value of the token for the other
\* types, and what it throws is returned as the error
parseByCallback(token, f) ==
    LET input == IF schema[f].type = "boolean"
                 THEN StringOf(BooleanValue(~IsNegated(f, token)))
                 ELSE IF IsDefined(token.value) THEN Get(token.value)
                 ELSE StringOf(schema[f].default)
    IN  IF ParseThrows(schema[f].parse, input)
        THEN ParseError(ThrownError(f, input))
        ELSE ParseOk(ParsedValue(input))

\* function parse(token, option, schema): [value, error], or it throws
parse(token, option, f) ==
    LET sch == schema[f]
    IN  IF sch.parse # "none" THEN parseByCallback(token, f)
        ELSE CASE sch.type = "string" ->
                    IF IsDefined(token.value) THEN ParseOk(ValueOrDefault(token, f))
                    ELSE ParseError(createTypeError(option, f))
               [] sch.type = "boolean" -> parseBoolean(token, f)
               [] sch.type = "number" -> parseNumber(token, option, f)
               [] sch.type = "enum" -> parseEnum(token, option, f)
               [] OTHER -> ParseThrew

\* `-${token.name}` or `--${arg}`
ActualInputName(option, token) ==
    IF isShortOption(Get(token.rawName))
    THEN <<HYPHEN_CHAR>> \o Get(token.name)
    ELSE LONG_OPTION_PREFIX \o option

\* one round of the match loop
MatchToken(fs, f, token) ==
    LET option == ArgName(f)
        got == parse(token, option, f)
        named == [fs EXCEPT !.explicit[f] = TRUE,
                            !.actualInputNames[f] = Some(ActualInputName(option, token))]
    IN  IF fs.threw \/ ~TokenMatches(option, f, token) THEN fs
        ELSE IF validateRequire(token, f)
        THEN [fs EXCEPT !.errors = @ \o <<createRequireError(option, f)>>]
        ELSE IF got.threw THEN [named EXCEPT !.threw = TRUE]
        ELSE IF got.error # <<>> THEN [named EXCEPT !.errors = @ \o got.error]
        ELSE IF schema[f].multiple
        THEN [named EXCEPT
                !.values[f] = IF IsFalsy(@) THEN ArrayValue(<<got.value>>)
                              ELSE ArrayValue(@.items \o <<got.value>>)]
        ELSE [named EXCEPT !.values[f] = got.value]

\* a field that is not positional
ResolveOption(fs, f) ==
    LET option == ArgName(f)
        init == [fs EXCEPT !.explicit[f] = FALSE]
        F[j \in 0..Len(optionTokens)] ==
            IF j = 0 THEN init ELSE MatchToken(F[j - 1], f, optionTokens[j])
        matched == F[Len(optionTokens)]
    IN  IF /\ schema[f].required
           /\ ~\E j \in 1..Len(optionTokens) : TokenFound(option, f, optionTokens[j])
        THEN [init EXCEPT !.errors = @ \o <<createRequireError(option, f)>>]
        ELSE IF matched.threw THEN matched
        ELSE IF IsNullish(matched.values[f]) /\ ~IsNullish(schema[f].default)
        THEN [matched EXCEPT !.values[f] = schema[f].default]
        ELSE matched

\* mutant: the last conflict found is the one reported
checkConflictsLast ==
    LET hits == {p \in (1..Len(schema)) \X (1..Len(schema)) :
                    /\ explicit[p[1]]
                    /\ p[2] <= Len(schema[p[1]].conflicts)
                    /\ FieldOfKey(schema[p[1]].conflicts[p[2]]) # 0
                    /\ explicit[FieldOfKey(schema[p[1]].conflicts[p[2]])]}
        first == CHOOSE p \in hits :
                    \A q \in hits : p[1] > q[1] \/ (p[1] = q[1] /\ p[2] >= q[2])
        f == first[1]
        g == FieldOfKey(schema[f].conflicts[first[2]])
        conflictingArgKebab ==
            IF resolveOptions.toKebab \/ schema[g].toKebab
            THEN kebabnize(schema[g].key) ELSE schema[g].key
        optionActualName ==
            IF IsDefined(actualInputNames[f]) THEN Get(actualInputNames[f])
            ELSE LONG_OPTION_PREFIX \o ArgName(f)
        conflictingActualName ==
            IF IsDefined(actualInputNames[g]) THEN Get(actualInputNames[g])
            ELSE LONG_OPTION_PREFIX \o conflictingArgKebab
    IN  IF hits = {} THEN <<>>
        ELSE <<ArgResolveError(<<optionActualName, conflictingActualName>>,
                               schema[f].key, "conflict", f)>>

\* mutant: a conflict needs both fields to declare it
checkConflictsMutual ==
    LET hits == {p \in (1..Len(schema)) \X (1..Len(schema)) :
                    /\ explicit[p[1]]
                    /\ p[2] <= Len(schema[p[1]].conflicts)
                    /\ FieldOfKey(schema[p[1]].conflicts[p[2]]) # 0
                    /\ explicit[FieldOfKey(schema[p[1]].conflicts[p[2]])]
                    /\ \E j \in 1..Len(schema[FieldOfKey(schema[p[1]].conflicts[p[2]])].conflicts) :
                          schema[FieldOfKey(schema[p[1]].conflicts[p[2]])].conflicts[j]
                             = schema[p[1]].key}
        first == CHOOSE p \in hits :
                    \A q \in hits : p[1] < q[1] \/ (p[1] = q[1] /\ p[2] <= q[2])
        f == first[1]
        g == FieldOfKey(schema[f].conflicts[first[2]])
        conflictingArgKebab ==
            IF resolveOptions.toKebab \/ schema[g].toKebab
            THEN kebabnize(schema[g].key) ELSE schema[g].key
        optionActualName ==
            IF IsDefined(actualInputNames[f]) THEN Get(actualInputNames[f])
            ELSE LONG_OPTION_PREFIX \o ArgName(f)
        conflictingActualName ==
            IF IsDefined(actualInputNames[g]) THEN Get(actualInputNames[g])
            ELSE LONG_OPTION_PREFIX \o conflictingArgKebab
    IN  IF hits = {} THEN <<>>
        ELSE <<ArgResolveError(<<optionActualName, conflictingActualName>>,
                               schema[f].key, "conflict", f)>>

\* the first conflict found, in declaration order and then array order
checkConflicts ==
    LET hits == {p \in (1..Len(schema)) \X (1..Len(schema)) :
                    /\ explicit[p[1]]
                    /\ p[2] <= Len(schema[p[1]].conflicts)
                    /\ FieldOfKey(schema[p[1]].conflicts[p[2]]) # 0
                    /\ explicit[FieldOfKey(schema[p[1]].conflicts[p[2]])]}
        first == CHOOSE p \in hits :
                    \A q \in hits : p[1] < q[1] \/ (p[1] = q[1] /\ p[2] <= q[2])
        f == first[1]
        g == FieldOfKey(schema[f].conflicts[first[2]])
        conflictingArgKebab ==
            IF resolveOptions.toKebab \/ schema[g].toKebab
            THEN kebabnize(schema[g].key) ELSE schema[g].key
        optionActualName ==
            IF IsDefined(actualInputNames[f]) THEN Get(actualInputNames[f])
            ELSE LONG_OPTION_PREFIX \o ArgName(f)
        conflictingActualName ==
            IF IsDefined(actualInputNames[g]) THEN Get(actualInputNames[g])
            ELSE LONG_OPTION_PREFIX \o conflictingArgKebab
    IN  IF hits = {} THEN <<>>
        ELSE <<ArgResolveError(<<optionActualName, conflictingActualName>>,
                               schema[f].key, "conflict", f)>>

FieldInto(fs) ==
    /\ values' = fs.values
    /\ errors' = fs.errors
    /\ explicit' = fs.explicit
    /\ actualInputNames' = fs.actualInputNames
    /\ positionalsCount' = fs.positionalsCount

\* one round of the loop over Object.entries(args)
ResolveField(isPositional, fs) ==
    /\ pc = "resolve"
    /\ cursor < Len(schema)
    /\ (schema[cursor + 1].type = "positional") = isPositional
    /\ IF fs.threw
       THEN pc' = "threw" /\ UNCHANGED fieldVars /\ UNCHANGED cursor
       ELSE pc' = pc /\ FieldInto(fs) /\ cursor' = cursor + 1
    /\ UNCHANGED parserVars
    /\ UNCHANGED <<schema, resolveOptions, calls>>
    /\ UNCHANGED analyzeVars

ResolvePositionalField == ResolveField(TRUE, ResolvePositional(fieldState, cursor + 1))

ResolveOptionField == ResolveField(FALSE, ResolveOption(fieldState, cursor + 1))

\* after the loop: the conflict check, and the result is returned
ResolveReturn ==
    /\ pc = "resolve"
    /\ cursor = Len(schema)
    /\ errors' = errors \o checkConflicts
    /\ pc' = "resolved"
    /\ UNCHANGED parserVars
    /\ UNCHANGED <<schema, resolveOptions, calls, cursor>>
    /\ UNCHANGED analyzeVars
    /\ UNCHANGED <<values, explicit, actualInputNames, positionalsCount>>

\* the result object
resultPositionals == [j \in 1..Len(positionalTokens) |-> Get(positionalTokens[j].value)]

resultHasError == errors # <<>>

\* what the caller is returned: values, positionals, rest, the errors of
\* error, and explicit
result ==
    [values |-> values, positionals |-> resultPositionals, rest |-> rest,
     errors |-> errors, explicit |-> explicit]

\* how many times resolveArgs is called with the same arguments
MaxCalls == 2

\* the caller keeps the result and calls resolveArgs again with the same
\* args object, token list and options: the locals of the call are new
ResolveAgain ==
    /\ pc = "resolved"
    /\ Len(calls) < MaxCalls
    /\ calls' = [calls EXCEPT ![Len(calls)].result = Some(result)]
    /\ pc' = "tokenized"
    /\ cursor' = 0
    /\ rest' = <<>>
    /\ optionTokens' = <<>>
    /\ positionalTokens' = <<>>
    /\ currentLongOption' = Undefined
    /\ currentShortOption' = Undefined
    /\ expandableShortOptions' = <<>>
    /\ terminated' = FALSE
    /\ sources' = [long |-> 0, short |-> 0]
    /\ values' = [f \in 1..Len(schema) |-> UndefinedValue]
    /\ errors' = <<>>
    /\ explicit' = [f \in 1..Len(schema) |-> FALSE]
    /\ actualInputNames' = [f \in 1..Len(schema) |-> Undefined]
    /\ positionalsCount' = 0
    /\ UNCHANGED parserVars
    /\ UNCHANGED <<schema, resolveOptions>>

\* ---------------------------------------------------- the whole call
\* the state of resolveArgs(fields, tokens, options) before its first line
ResolveInit(fields, options) ==
    /\ schema = fields
    /\ resolveOptions = options
    /\ cursor = 0
    /\ rest = <<>>
    /\ optionTokens = <<>>
    /\ positionalTokens = <<>>
    /\ currentLongOption = Undefined
    /\ currentShortOption = Undefined
    /\ expandableShortOptions = <<>>
    /\ terminated = FALSE
    /\ sources = [long |-> 0, short |-> 0]
    /\ calls = <<>>
    /\ values = [f \in 1..Len(fields) |-> UndefinedValue]
    /\ errors = <<>>
    /\ explicit = [f \in 1..Len(fields) |-> FALSE]
    /\ actualInputNames = [f \in 1..Len(fields) |-> Undefined]
    /\ positionalsCount = 0

\* { shortGrouping = false, skipPositional = SKIP_POSITIONAL_DEFAULT, toKebab = false }
ResolveArgs(shortGrouping, skipPositional, toKebab) ==
    [shortGrouping |-> shortGrouping, skipPositional |-> skipPositional,
     toKebab |-> toKebab]

DefaultResolveArgs == ResolveArgs(FALSE, SKIP_POSITIONAL_DEFAULT, FALSE)

\* the argv items the whole call is run on
ArgvItems ==
    { <<"-", "-", "a">>, <<"-", "-", "a", "=", "1">>, <<"-", "-", "b">>,
      <<"-", "a">>, <<"-", "a", "b">>, <<"-", "a", "=", "1">>,
      <<"1">>, <<"x">>, <<"-", "-">>, <<>> }

MaxArgvItems == 2

Argvs == UNION {[1..n -> ArgvItems] : n \in 0..MaxArgvItems}

\* the keys of the fields, in declaration order
Keys == << <<"a">>, <<"b">> >>

\* the schemas a field with this key is given; other is the key of the
\* other field
FieldSchemas(key, other) ==
    { ArgSchema(key, "boolean", Some(key), FALSE, FALSE, FALSE, Undefined,
                UndefinedValue, FALSE, <<>>, "none"),
      ArgSchema(key, "string", Some(key), FALSE, FALSE, FALSE, Undefined,
                UndefinedValue, FALSE, <<other>>, "none"),
      ArgSchema(key, "string", Undefined, TRUE, FALSE, FALSE, Undefined,
                UndefinedValue, FALSE, <<>>, "none"),
      ArgSchema(key, "number", Some(key), FALSE, FALSE, FALSE, Undefined,
                UndefinedValue, FALSE, <<>>, "none"),
      ArgSchema(key, "number", Undefined, TRUE, FALSE, FALSE, Undefined,
                UndefinedValue, FALSE, <<>>, "none"),
      ArgSchema(key, "enum", Undefined, FALSE, FALSE, FALSE, Some(<< <<"1">> >>),
                UndefinedValue, FALSE, <<>>, "none"),
      ArgSchema(key, "custom", Undefined, FALSE, FALSE, FALSE, Undefined,
                UndefinedValue, FALSE, <<>>, "picky"),
      ArgSchema(key, "positional", Undefined, FALSE, FALSE, FALSE, Undefined,
                UndefinedValue, FALSE, <<>>, "none") }

Schemas ==
    {<<>>}
    \cup {<<s>> : s \in FieldSchemas(Keys[1], Keys[2])}
    \cup {<<s, t>> : s \in FieldSchemas(Keys[1], Keys[2]),
                     t \in FieldSchemas(Keys[2], Keys[1])}

\* the options the whole call is run with: allowCompatible of parseArgs and
\* the options of resolveArgs
CallOptions ==
    { [allowCompatible |-> FALSE, resolve |-> DefaultResolveArgs],
      [allowCompatible |-> TRUE, resolve |-> DefaultResolveArgs],
      [allowCompatible |-> FALSE,
       resolve |-> ResolveArgs(TRUE, SKIP_POSITIONAL_DEFAULT, FALSE)],
      [allowCompatible |-> FALSE, resolve |-> ResolveArgs(FALSE, 0, FALSE)],
      [allowCompatible |-> FALSE,
       resolve |-> ResolveArgs(FALSE, SKIP_POSITIONAL_DEFAULT, TRUE)] }

\* resolveArgs(fields, parseArgs(argv, { allowCompatible }), options)
Init ==
    /\ \E argv \in Argvs, fields \in Schemas, options \in CallOptions :
          /\ ParseStart(argv, options.allowCompatible)
          /\ ResolveInit(fields, options.resolve)
    /\ pc = "parseArgs"

Next ==
    \/ ParseTerminator
    \/ ParseShortOption
    \/ ParseShortOptionGroup
    \/ ParseLongOption
    \/ ParseLongOptionAndValue
    \/ ParsePositional
    \/ ParseReturn
    \/ ResolveStart
    \/ AnalyzePositional
    \/ AnalyzeNamedOption
    \/ AnalyzeValueOption
    \/ AnalyzeTerminator
    \/ AnalyzeEnd
    \/ ResolvePositionalField
    \/ ResolveOptionField
    \/ ResolveReturn

Spec == Init /\ [][Next]_vars

\* --------------------------------- the whole call: one option field
\* the argv items typed for an option field with key a and alias a
OptionArgvItems ==
    { <<"-", "-", "a">>, <<"-", "-", "a", "=", "1">>, <<"-", "-", "a", "=", "x">>,
      <<"-", "-", "a", "=">>, <<"-", "-", "n", "o", "-", "a">>,
      <<"-", "-", "n", "o", "-", "a", "=", "1">>,
      <<"-", "a">>, <<"-", "a", "=", "1">>, <<"-", "a", "b">>,
      <<"1">>, <<"x">>, <<"-", "-">> }

OptionArgvs == UNION {[1..n -> OptionArgvItems] : n \in 0..MaxArgvItems}

\* the default a field of this type is given
DefaultOf(type) ==
    CASE type = "string" -> StringValue(<<"1">>)
      [] type = "number" -> NumberValue(1)
      [] type = "boolean" -> BooleanValue(FALSE)
      [] type = "enum" -> StringValue(<<"1">>)
      [] OTHER -> StringValue(<<"1">>)

\* the declared choices of an enum field, none for the other types
ChoicesOf(type) == IF type = "enum" THEN Some(<< <<"1">> >>) ELSE Undefined

\* the parse callbacks a field of this type is given
ParsesOf(type) ==
    CASE type = "custom" -> {"wrap", "picky"}
      [] type = "enum" -> {"none"}
      [] OTHER -> {"none", "wrap"}

\* the schemas of an option field of this type: key a, alias a
OptionFieldSchemasOf(type) ==
    { ArgSchema(Keys[1], type, Some(Keys[1]), required, multiple, negatable, ChoicesOf(type), default, FALSE, <<>>, callback) :
        required \in BOOLEAN, multiple \in BOOLEAN,
        negatable \in IF type = "boolean" THEN BOOLEAN ELSE {FALSE},
        default \in {UndefinedValue, DefaultOf(type)},
        callback \in ParsesOf(type) }

OptionFieldSchemas ==
    UNION {OptionFieldSchemasOf(type) :
             type \in {"string", "number", "boolean", "enum", "custom"}}

\* the option field, alone or followed by a positional field
OptionSchemas ==
    {<<s>> : s \in OptionFieldSchemas}
    \cup {<<s, ArgSchema(Keys[2], "positional", Undefined, FALSE, FALSE, FALSE, Undefined, UndefinedValue, FALSE, <<>>, "none")>> :
             s \in OptionFieldSchemas}

InitOptions ==
    /\ \E argv \in OptionArgvs, fields \in OptionSchemas :
          /\ ParseStart(argv, FALSE)
          /\ ResolveInit(fields, DefaultResolveArgs)
    /\ pc = "parseArgs"

SpecOptions == InitOptions /\ [][Next]_vars

\* ------------------------------ the whole call: fields that conflict
\* the keys of the three fields, in declaration order
ConflictKeys == << <<"a">>, <<"b">>, <<"c">> >>

\* a `conflicts` entry that is the key of no field
NotAKey == <<"a", "-", "b">>

\* a Boolean field with its key as alias, with or without a default
FlagSchema(key, default, conflicts) ==
    ArgSchema(key, "boolean", Some(key), FALSE, FALSE, FALSE, Undefined, default, FALSE, conflicts, "none")

FlagSchemas(key, defaults, lists) ==
    {FlagSchema(key, default, conflicts) : default \in defaults, conflicts \in lists}

\* a positional field that declares conflicts
PositionalSchemas(key, lists) ==
    {ArgSchema(key, "positional", Undefined, FALSE, FALSE, FALSE, Undefined, UndefinedValue, FALSE, conflicts, "none") :
        conflicts \in lists}

ConflictSchemas ==
    {<<a, b, c>> :
        a \in FlagSchemas(ConflictKeys[1], {UndefinedValue},
                          { <<>>, <<ConflictKeys[2]>>,
                            <<ConflictKeys[2], ConflictKeys[3]>>,
                            <<ConflictKeys[3], ConflictKeys[2]>>,
                            <<NotAKey, ConflictKeys[3]>> }),
        b \in FlagSchemas(ConflictKeys[2], {UndefinedValue, BooleanValue(TRUE)},
                          { <<>>, <<ConflictKeys[1]>>, <<ConflictKeys[3]>> }),
        c \in FlagSchemas(ConflictKeys[3], {UndefinedValue, BooleanValue(TRUE)},
                          { <<>>, <<ConflictKeys[1]>> })
              \cup PositionalSchemas(ConflictKeys[3], { <<>>, <<ConflictKeys[1]>> }) }

\* the items that name the three fields
ConflictOptionItems ==
    { <<"-", "-", "a">>, <<"-", "-", "b">>, <<"-", "-", "c">>, <<"-", "a">>, <<"-", "b">> }

\* the other items typed with them
ConflictArgvItems ==
    ConflictOptionItems
    \cup { <<"-", "a", "b">>, <<"-", "a", "=", "1">>, <<"-", "-", "a", "=", "1">>,
           <<"x">>, <<"-", "-">> }

ConflictArgvs ==
    UNION {[1..n -> ConflictOptionItems] : n \in 0..(MaxArgvItems + 1)}
    \cup UNION {[1..n -> ConflictArgvItems] : n \in 0..MaxArgvItems}

InitConflicts ==
    /\ \E argv \in ConflictArgvs, fields \in ConflictSchemas :
          /\ ParseStart(argv, FALSE)
          /\ ResolveInit(fields, DefaultResolveArgs)
    /\ pc = "parseArgs"

SpecConflicts == InitConflicts /\ [][Next]_vars

\* ------------------------- the whole call: a field with a camelCase key
\* the key of the field, and its kebab-case form
CamelKey == <<"a", "B">>

\* the items typed for the field: its key, its kebab-case name, its alias,
\* and a long option spelt like the alias
NamedArgvItems ==
    { <<"-", "-", "a", "B">>, <<"-", "-", "a", "-", "b">>, <<"-", "-", "a">>,
      <<"-", "a">>, <<"-", "-", "a", "-", "b", "=", "1">>, <<"-", "a", "=", "1">>,
      <<"-", "a", "b">>, <<"x">>, <<"-", "-">> }

NamedArgvs == UNION {[1..n -> NamedArgvItems] : n \in 0..MaxArgvItems}

\* the schemas of the field
NamedFieldSchemas ==
    { ArgSchema(CamelKey, type, short, required, FALSE, FALSE, Undefined, UndefinedValue, kebab, <<>>, "none") :
        type \in {"string", "boolean"},
        short \in {Undefined, Some(<<"a">>)},
        required \in BOOLEAN,
        kebab \in BOOLEAN }

\* the field, alone or followed by a positional field
NamedSchemas ==
    {<<s>> : s \in NamedFieldSchemas}
    \cup {<<s, ArgSchema(Keys[2], "positional", Undefined, FALSE, FALSE, FALSE, Undefined, UndefinedValue, FALSE, <<>>, "none")>> :
             s \in NamedFieldSchemas}

InitNamed ==
    /\ \E argv \in NamedArgvs, fields \in NamedSchemas, toKebab \in BOOLEAN :
          /\ ParseStart(argv, FALSE)
          /\ ResolveInit(fields, ResolveArgs(FALSE, SKIP_POSITIONAL_DEFAULT, toKebab))
    /\ pc = "parseArgs"

SpecNamed == InitNamed /\ [][Next]_vars

\* ------------------------- the whole call: a field with a parse callback
\* the types a field with a callback is declared with
CallbackTypes == {"string", "number", "boolean", "enum", "custom", "positional"}

\* the schemas of a field of this type that declares a callback: key a, and
\* alias a unless positional
CallbackFieldSchemasOf(type) ==
    { ArgSchema(Keys[1], type, IF type = "positional" THEN Undefined ELSE Some(Keys[1]), required, multiple, negatable, ChoicesOf(type), default, FALSE, <<>>, callback) :
        required \in BOOLEAN, multiple \in BOOLEAN,
        negatable \in IF type = "boolean" THEN BOOLEAN ELSE {FALSE},
        default \in IF type = "positional" THEN {UndefinedValue}
                    ELSE {UndefinedValue, DefaultOf(type)},
        callback \in {"wrap", "picky"} }

CallbackSchemas ==
    UNION {{<<s>> : s \in CallbackFieldSchemasOf(type)} : type \in CallbackTypes}

InitCallback ==
    /\ \E argv \in OptionArgvs, fields \in CallbackSchemas :
          /\ ParseStart(argv, FALSE)
          /\ ResolveInit(fields, DefaultResolveArgs)
    /\ pc = "parseArgs"

SpecCallback == InitCallback /\ [][Next]_vars

\* ------------------------------ the whole call: positional fields
\* the keys of the positional fields, in declaration order
PositionalKeys == << <<"b">>, <<"c">> >>

\* the items typed: two plain items, the flag in each of its forms, and the
\* terminator
PositionalArgvItems ==
    { <<"x">>, <<"y">>, <<"-", "-", "a">>, <<"-", "-", "a", "=", "1">>,
      <<"-", "a">>, <<"-", "a", "=", "1">>, <<"-", "-">> }

PositionalArgvs == UNION {[1..n -> PositionalArgvItems] : n \in 0..(MaxArgvItems + 1)}

\* a positional field, required or not, `multiple` or not
PositionalFieldSchemas(key) ==
    {ArgSchema(key, "positional", Undefined, required, multiple, FALSE, Undefined, UndefinedValue, FALSE, <<>>, "none") :
        required \in BOOLEAN, multiple \in BOOLEAN}

\* one or two positional fields, and the Boolean field a declared before,
\* between or after them
PositionalFieldLists ==
    LET flag == FlagSchema(Keys[1], UndefinedValue, <<>>)
    IN  UNION {{<<flag, b>>, <<b, flag>>} : b \in PositionalFieldSchemas(PositionalKeys[1])}
        \cup UNION {{<<flag, b, c>>, <<b, flag, c>>, <<b, c, flag>>} :
                       b \in PositionalFieldSchemas(PositionalKeys[1]),
                       c \in PositionalFieldSchemas(PositionalKeys[2])}

\* the values of skipPositional: below the default, the default, and three
\* indexes of positionals
SkipPositionals == {-2, SKIP_POSITIONAL_DEFAULT, 0, 1, 2}

InitPositional ==
    /\ \E argv \in PositionalArgvs, fields \in PositionalFieldLists, skip \in SkipPositionals :
          /\ ParseStart(argv, FALSE)
          /\ ResolveInit(fields, ResolveArgs(FALSE, skip, FALSE))
    /\ pc = "parseArgs"

SpecPositional == InitPositional /\ [][Next]_vars

\* ------------------------------ the whole call, and resolveArgs again
\* the option field a, not required, of type String or Boolean, followed by
\* the positional field b
TwiceSchemas ==
    {<<s, ArgSchema(Keys[2], "positional", Undefined, FALSE, FALSE, FALSE, Undefined, UndefinedValue, FALSE, <<>>, "none")>> :
        s \in {o \in OptionFieldSchemasOf("string") \cup OptionFieldSchemasOf("boolean") :
                  ~o.required}}

InitTwice ==
    /\ \E argv \in OptionArgvs, fields \in TwiceSchemas, shortGrouping \in BOOLEAN :
          /\ ParseStart(argv, FALSE)
          /\ ResolveInit(fields, ResolveArgs(shortGrouping, SKIP_POSITIONAL_DEFAULT, FALSE))
    /\ pc = "parseArgs"

NextTwice ==
    \/ ParseTerminator
    \/ ParseShortOption
    \/ ParseShortOptionGroup
    \/ ParseLongOption
    \/ ParseLongOptionAndValue
    \/ ParsePositional
    \/ ParseReturn
    \/ ResolveStart
    \/ AnalyzePositional
    \/ AnalyzeNamedOption
    \/ AnalyzeValueOption
    \/ AnalyzeTerminator
    \/ AnalyzeEnd
    \/ ResolvePositionalField
    \/ ResolveOptionField
    \/ ResolveReturn
    \/ ResolveAgain

SpecTwice == InitTwice /\ [][NextTwice]_vars

\* ------------------- the whole call: grouped flags, then separate flags
\* the items typed: groups of the flags a, b and c, a flag alone, and the
\* other kinds of item
GroupedArgvItems ==
    { <<"-", "a", "b">>, <<"-", "b", "a">>, <<"-", "a", "b", "c">>, <<"-", "a", "a">>,
      <<"-", "a">>, <<"x">>, <<"-", "-", "c">>, <<"-", "-", "c", "=", "1">>,
      <<"-", "a", "=", "1">>, <<"-", "-">> }

GroupedArgvs == UNION {[1..n -> GroupedArgvItems] : n \in 0..MaxArgvItems}

\* the Boolean fields a, b and c, each with its key as alias, `multiple` or
\* not, alone or followed by a positional field
GroupedSchemas ==
    LET Flag(key, multiple) ==
            ArgSchema(key, "boolean", Some(key), FALSE, multiple, FALSE, Undefined, UndefinedValue, FALSE, <<>>, "none")
        flags == {<<Flag(ConflictKeys[1], m1), Flag(ConflictKeys[2], m2), Flag(ConflictKeys[3], m3)>> :
                     m1 \in BOOLEAN, m2 \in BOOLEAN, m3 \in BOOLEAN}
    IN  flags \cup {fs \o <<p>> : fs \in flags, p \in PositionalFieldSchemas(<<"d">>)}

InitGrouped ==
    /\ \E argv \in GroupedArgvs, fields \in GroupedSchemas :
          /\ ParseStart(argv, FALSE)
          /\ ResolveInit(fields, ResolveArgs(TRUE, SKIP_POSITIONAL_DEFAULT, FALSE))
    /\ pc = "parseArgs"

\* the argv item is a group of flags: `-` and two or more aliases of fields
IsFlagGroup(arg) ==
    /\ isShortOptionGroup(arg)
    /\ \A j \in 2..Len(arg) : \E f \in 1..Len(schema) : schema[f].short = Some(<<arg[j]>>)

\* the argv with every group of flags typed as separate arguments
RECURSIVE Separated(_)
Separated(argv) ==
    IF argv = <<>> THEN <<>>
    ELSE (IF IsFlagGroup(Head(argv))
          THEN [j \in 1..(Len(Head(argv)) - 1) |-> <<HYPHEN_CHAR, Head(argv)[j + 1]>>]
          ELSE <<Head(argv)>>)
         \o Separated(Tail(argv))

\* parseArgs is entered with argv, and resolveArgs comes after it: the
\* locals of both are new
ParseAnew(argv) ==
    /\ pc' = "parseArgs"
    /\ args' = argv
    /\ remainings' = argv
    /\ tokens' = <<>>
    /\ index' = -1
    /\ groupCount' = 0
    /\ hasShortValueSeparator' = FALSE
    /\ origins' = [k \in 1..Len(argv) |-> k - 1]
    /\ tokenArgs' = <<>>
    /\ cursor' = 0
    /\ rest' = <<>>
    /\ optionTokens' = <<>>
    /\ positionalTokens' = <<>>
    /\ currentLongOption' = Undefined
    /\ currentShortOption' = Undefined
    /\ expandableShortOptions' = <<>>
    /\ terminated' = FALSE
    /\ sources' = [long |-> 0, short |-> 0]
    /\ values' = [f \in 1..Len(schema) |-> UndefinedValue]
    /\ errors' = <<>>
    /\ explicit' = [f \in 1..Len(schema) |-> FALSE]
    /\ actualInputNames' = [f \in 1..Len(schema) |-> Undefined]
    /\ positionalsCount' = 0

\* the caller keeps the result and runs the call again on the argv whose
\* groups of flags are typed as separate arguments
ResolveSeparately ==
    /\ pc = "resolved"
    /\ Len(calls) = 1
    /\ \E k \in 1..Len(args) : IsFlagGroup(args[k])
    /\ calls' = [calls EXCEPT ![1].result = Some(result)]
    /\ ParseAnew(Separated(args))
    /\ UNCHANGED <<allowCompatible, schema, resolveOptions>>

NextGrouped ==
    \/ ParseTerminator
    \/ ParseShortOption
    \/ ParseShortOptionGroup
    \/ ParseLongOption
    \/ ParseLongOptionAndValue
    \/ ParsePositional
    \/ ParseReturn
    \/ ResolveStart
    \/ AnalyzePositional
    \/ AnalyzeNamedOption
    \/ AnalyzeValueOption
    \/ AnalyzeTerminator
    \/ AnalyzeEnd
    \/ ResolvePositionalField
    \/ ResolveOptionField
    \/ ResolveReturn
    \/ ResolveSeparately

SpecGrouped == InitGrouped /\ [][NextGrouped]_vars

\* ------------------------------------------- parse(argv, options)
\* resolveArgs(_args || DEFAULT_OPTIONS, tokens): the options resolveArgs is
\* given by parse, which passes it no third argument
ForwardedByParse(options) == DefaultResolveArgs

\* function parse(args, options), called with the argv, the args object, and
\* the allowCompatible, shortGrouping, skipPositional and toKebab that the
\* call of parseArgs and resolveArgs before it was given; options.args is an
\* object, so that `_args || DEFAULT_OPTIONS` is _args
Parse ==
    /\ pc = "resolved"
    /\ Len(calls) = 1
    /\ calls' = [calls EXCEPT ![1].result = Some(result)]
    /\ ParseAnew(args)
    /\ resolveOptions' = ForwardedByParse(resolveOptions)
    /\ UNCHANGED <<allowCompatible, schema>>

NextParse ==
    \/ ParseTerminator
    \/ ParseShortOption
    \/ ParseShortOptionGroup
    \/ ParseLongOption
    \/ ParseLongOptionAndValue
    \/ ParsePositional
    \/ ParseReturn
    \/ ResolveStart
    \/ AnalyzePositional
    \/ AnalyzeNamedOption
    \/ AnalyzeValueOption
    \/ AnalyzeTerminator
    \/ AnalyzeEnd
    \/ ResolvePositionalField
    \/ ResolveOptionField
    \/ ResolveReturn
    \/ Parse

\* resolveArgs(fields, parseArgs(argv, { allowCompatible }), options), then
\* parse(argv, { args: fields, allowCompatible, ...options })
SpecParse == Init /\ [][NextParse]_vars

\* ------------------------------ the whole call: callbacks that throw
\* the items typed: a plain item the callback throws on and one it takes,
\* the option a with each of them and without a value, the flag b, and the
\* terminator
ThrownArgvItems ==
    { <<"x">>, <<"1">>, <<"-", "-", "a", "=", "x">>, <<"-", "-", "a", "=", "1">>,
      <<"-", "a">>, <<"-", "a", "=", "1">>, <<"-", "-", "b">>, <<"-", "-">> }

ThrownArgvs == UNION {[1..n -> ThrownArgvItems] : n \in 0..(MaxArgvItems + 1)}

\* the Custom option field a and the positional field c, each with a callback
\* that throws unless its input is numeric, `multiple` or not
ThrowingOptions ==
    {ArgSchema(Keys[1], "custom", Some(Keys[1]), FALSE, multiple, FALSE, Undefined, UndefinedValue, FALSE, <<>>, "picky") :
        multiple \in BOOLEAN}

ThrowingPositionals ==
    {ArgSchema(PositionalKeys[2], "positional", Undefined, FALSE, multiple, FALSE, Undefined, UndefinedValue, FALSE, <<>>, "picky") :
        multiple \in BOOLEAN}

\* the two fields and the Boolean field b, in every declaration order
ThrownSchemas ==
    LET flag == FlagSchema(Keys[2], UndefinedValue, <<>>)
    IN  UNION {{<<o, c, flag>>, <<o, flag, c>>, <<c, o, flag>>,
                <<c, flag, o>>, <<flag, o, c>>, <<flag, c, o>>} :
                  o \in ThrowingOptions, c \in ThrowingPositionals}

InitThrown ==
    /\ \E argv \in ThrownArgvs, fields \in ThrownSchemas :
          /\ ParseStart(argv, FALSE)
          /\ ResolveInit(fields, DefaultResolveArgs)
    /\ pc = "parseArgs"

SpecThrown == InitThrown /\ [][Next]_vars

\* ------------------------------------------ parseArgs on its own
InitParseArgs ==
    /\ \E lens \in ArgvShapes, compatible \in BOOLEAN :
          \E flat \in [1..SumOf(lens) -> Chars] :
             ParseStart(SplitBy(flat, lens), compatible)
    /\ ResolveInit(<<>>, DefaultResolveArgs)
    /\ pc = "parseArgs"

NextParseArgs ==
    \/ ParseTerminator
    \/ ParseShortOption
    \/ ParseShortOptionGroup
    \/ ParseLongOption
    \/ ParseLongOptionAndValue
    \/ ParsePositional
    \/ ParseReturn

SpecParseArgs == InitParseArgs /\ [][NextParseArgs]_vars

\* ------------------------------ parseArgs on an argv and on its parts
\* the caller keeps the argv and the tokens returned for it and calls
\* parseArgs again: first on the items before a split point, none of them
\* `--`, then on the items from the split point on
ParsePart ==
    /\ pc = "tokenized"
    /\ Len(calls) < 2
    /\ calls' = Append(calls, [args |-> args, tokens |-> tokens])
    /\ IF calls = <<>>
       THEN \E k \in 0..Len(args) :
               /\ \A j \in 1..k : args[j] # TERMINATOR
               /\ ParseAnew(SubSeq(args, 1, k))
       ELSE ParseAnew(SubSeq(calls[1].args, Len(args) + 1, Len(calls[1].args)))
    /\ UNCHANGED <<allowCompatible, schema, resolveOptions>>

NextSplit ==
    \/ ParseTerminator
    \/ ParseShortOption
    \/ ParseShortOptionGroup
    \/ ParseLongOption
    \/ ParseLongOptionAndValue
    \/ ParsePositional
    \/ ParseReturn
    \/ ParsePart

\* parseArgs(argv), then parseArgs(A) and parseArgs(B) for argv = A ++ B
SpecSplit == InitParseArgs /\ [][NextSplit]_vars

\* parseArgs is a synchronous loop: while the queue is not empty the next
\* iteration runs
FairSpecParseArgs == SpecParseArgs /\ WF_vars(NextParseArgs)

\* ================================================================ claims
\* ---------------------------------------------- reading the token list
RECURSIVE Pick(_, _, _)
\* the tokens of ts whose argv position, given by os, is k
Pick(ts, os, k) ==
    IF ts = <<>> THEN <<>>
    ELSE (IF Head(os) = k THEN <<Head(ts)>> ELSE <<>>) \o Pick(Tail(ts), Tail(os), k)

\* the tokens produced from args[k] (k counts from 1, as Sequences do)
TokensOfArg(k) == Pick(tokens, tokenArgs, k - 1)

IsTerminatorAt(i) == tokens[i].kind = "option-terminator"

\* a terminator token was emitted from an argv item before args[k]
TerminatedBefore(k) ==
    \E i \in 1..Len(tokens) : IsTerminatorAt(i) /\ tokenArgs[i] < k - 1

NamedShortToken(c, idx) ==
    OptionToken(Some(<<c>>), Some(<<HYPHEN_CHAR, c>>), idx, Undefined, FALSE)

\* C4: when parseArgs meets the first argv item equal to `--` it emits one
\* option-terminator token and then one positional token per later argv item,
\* value unchanged, at successive indexes, and nothing else; the token list
\* never holds two terminators nor anything but positionals after one.
C4_TerminatorEndsOptions ==
    /\ Cardinality({i \in 1..Len(tokens) : IsTerminatorAt(i)}) <= 1
    /\ \A i, j \in 1..Len(tokens) :
          IsTerminatorAt(i) /\ i < j => tokens[j].kind = "positional"
    /\ pc = "tokenized" =>
          \A k \in 1..Len(args) :
             ( /\ args[k] = TERMINATOR
               /\ \A h \in 1..(k - 1) : args[h] # TERMINATOR
               /\ ~TerminatedBefore(k) ) =>
             \E i \in 1..Len(tokens) :
                /\ IsTerminatorAt(i)
                /\ tokenArgs[i] = k - 1
                /\ Len(tokens) = i + (Len(args) - k)
                /\ \A j \in 1..(Len(args) - k) :
                      tokens[i + j] = PositionalToken(tokens[i].index + j, args[k + j])

\* C4 witness: `--` was met with an option-looking item behind it
C4_Witness ==
    /\ pc = "tokenized"
    /\ Len(args) = 2
    /\ args[1] = TERMINATOR
    /\ isShortOptionGroup(args[2])
    /\ Len(tokens) = 2

\* C5: parseArgs terminates on every argv: the loop reaches the empty queue
\* or the terminator and returns the token list.
C5_ParseArgsTerminates == <>(pc = "tokenized")

\* C5 witness: a call that expanded a short group has returned
C5_Witness ==
    /\ pc = "tokenized"
    /\ \E k \in 1..Len(args) : isShortOptionGroup(args[k]) /\ Len(TokensOfArg(k)) >= 3

\* C6: every argv item before any terminator that is not `--` and does not
\* begin with `-` comes out as exactly one positional token holding the item.
C6_PlainItemIsPositional ==
    pc = "tokenized" =>
       \A k \in 1..Len(args) :
          ( /\ ~TerminatedBefore(k)
            /\ args[k] # TERMINATOR
            /\ ~StartsWith(args[k], <<HYPHEN_CHAR>>) ) =>
          LET ts == TokensOfArg(k)
          IN  /\ Len(ts) = 1
              /\ ts[1].kind = "positional"
              /\ ts[1].value = Some(args[k])

\* the 0-based position of the first `=` of an argv item, -1 if it has none
FirstEqual(arg) ==
    IF \A j \in 1..Len(arg) : arg[j] # EQUAL_CHAR THEN -1
    ELSE (CHOOSE j \in 1..Len(arg) :
             arg[j] = EQUAL_CHAR /\ \A h \in 1..(j - 1) : arg[h] # EQUAL_CHAR) - 1

\* the flag characters of a short group: those before the first `=`
GroupFlags(arg) ==
    IF FirstEqual(arg) = -1 THEN SliceFrom(arg, 1) ELSE Slice(arg, 1, FirstEqual(arg))

\* the text after the first `=` of a short group (empty if there is none)
GroupValue(arg) ==
    IF FirstEqual(arg) = -1 THEN <<>> ELSE SliceFrom(arg, FirstEqual(arg) + 1)

\* a short group as C7 writes it: a dash, option characters, and either
\* nothing more or `=` and a value
IsPlainGroup(arg) ==
    /\ isShortOptionGroup(arg)
    /\ GroupFlags(arg) # <<>>
    /\ \A j \in 1..Len(GroupFlags(arg)) : GroupFlags(arg)[j] # HYPHEN_CHAR
    /\ FirstEqual(arg) # -1 =>
          (GroupValue(arg) # <<>> /\ GroupValue(arg)[1] # HYPHEN_CHAR)

\* C7: without compatibility mode a short group -abc gives the named tokens
\* a, b, c at one index, a group -abc=1 gives them followed by the nameless
\* token {value: '1', inlineValue: true} at that index, and the next argv
\* item gets the next index.
C7_ShortGroupTokens ==
    (pc = "tokenized" /\ ~allowCompatible) =>
       \A k \in 1..Len(args) :
          (IsPlainGroup(args[k]) /\ ~TerminatedBefore(k)) =>
          LET ts == TokensOfArg(k)
              flags == GroupFlags(args[k])
              value == GroupValue(args[k])
              g == ts[1].index
          IN  /\ Len(ts) = Len(flags) + (IF value = <<>> THEN 0 ELSE 1)
              /\ \A j \in 1..Len(flags) : ts[j] = NamedShortToken(flags[j], g)
              /\ value # <<>> =>
                    ts[Len(ts)] = OptionToken(Undefined, Undefined, g, Some(value), TRUE)
              /\ k < Len(args) =>
                    \A t \in 1..Len(TokensOfArg(k + 1)) :
                       TokensOfArg(k + 1)[t].index = g + 1

NoInnerHyphen(arg) == \A j \in 3..Len(arg) : arg[j] # HYPHEN_CHAR

LongOptionTokens(k) ==
    LET arg == args[k]
        eq == FirstEqual(arg)
        ts == TokensOfArg(k)
    IN  /\ Len(ts) = 1
        /\ ts[1].kind = "option"
        /\ IF eq = -1
           THEN /\ ts[1].name = Some(SliceFrom(arg, 2))
                /\ ts[1].value = Undefined
           ELSE /\ ts[1].name = Some(Slice(arg, 2, eq))
                /\ ts[1].value = Some(SliceFrom(arg, eq + 1))
                /\ ts[1].rawName = Some(Slice(arg, 0, eq))
                /\ ts[1].inlineValue = TRUE

\* C9 as stated: `--<name>=<value>` gives one option token split at the first
\* `=`, `--<name>` gives one option token with that name and no value.
C9_LongOptionSplit ==
    pc = "tokenized" =>
       \A k \in 1..Len(args) :
          ( /\ StartsWith(args[k], LONG_OPTION_PREFIX)
            /\ Len(args[k]) > 2
            /\ ~TerminatedBefore(k) ) =>
          LongOptionTokens(k)

\* C9 amended: the same, for a name of at least one character (the first `=`
\* does not directly follow the `--`).
C9_LongOptionSplitNamed ==
    pc = "tokenized" =>
       \A k \in 1..Len(args) :
          ( /\ StartsWith(args[k], LONG_OPTION_PREFIX)
            /\ Len(args[k]) > 2
            /\ FirstEqual(args[k]) # 2
            /\ ~TerminatedBefore(k) ) =>
          LongOptionTokens(k)

\* C9 witness: an item --<name>=<value> whose value holds another `=`
C9_Witness ==
    /\ pc = "tokenized"
    /\ \E k \in 1..Len(args) :
          /\ StartsWith(args[k], LONG_OPTION_PREFIX)
          /\ FirstEqual(args[k]) = 3
          /\ Includes(args[k], <<EQUAL_CHAR>>, 4)
          /\ Len(TokensOfArg(k)) = 1

\* C10: every token carries the argv position of the argument it was
\* produced from.
C10_IndexIsArgvPosition ==
    \A i \in 1..Len(tokens) : tokens[i].index = tokenArgs[i]

\* ------------------------------------------------- the resolved result
\* resolveArgs has ended: it returned a result, or an exception left it
ResolveEnded == pc \in {"resolved", "threw"}

\* every enum field declares choices and every custom field declares parse
WellFormedSchema ==
    \A f \in 1..Len(schema) :
       /\ schema[f].type = "enum" => IsDefined(schema[f].choices)
       /\ schema[f].type = "custom" => schema[f].parse # "none"

\* C1: for a schema whose enum fields declare choices and whose custom
\* fields declare parse, and the tokens parseArgs produced, resolveArgs never
\* throws: it always ends by returning a result object.
C1_ResolveArgsNeverThrows ==
    WellFormedSchema => pc # "threw"

\* the errors are in declaration order of their fields, and a conflict error
\* is the last of the list
ErrorsInDeclarationOrder ==
    \A i \in 1..Len(errors), j \in 1..Len(errors) :
       i < j => /\ errors[i].type # "conflict"
                /\ errors[j].type # "conflict" => errors[i].field <= errors[j].field

\* no token of argv names the option field f, by its key or by its alias
Unnamed(f) ==
    \A j \in 1..Len(tokens) :
       tokens[j].kind = "option" =>
          /\ tokens[j].name # Some(schema[f].key)
          /\ tokens[j].name # schema[f].short

\* the option token names the field f: `--key`, or `-alias`
NamesField(token, f) ==
    /\ IsDefined(token.rawName)
    /\ \/ StartsWith(Get(token.rawName), LONG_OPTION_PREFIX)
          /\ token.name = Some(schema[f].key)
       \/ ~StartsWith(Get(token.rawName), LONG_OPTION_PREFIX)
          /\ token.name = schema[f].short

\* the value the option token carries is not one of the type of field f
WrongValue(token, f) ==
    CASE schema[f].type = "string" -> ~IsDefined(token.value)
      [] schema[f].type = "number" ->
            ~IsDefined(token.value) \/ ~isNumeric(Get(token.value))
      [] schema[f].type = "enum" ->
            \/ ~IsDefined(token.value)
            \/ \A c \in 1..Len(Get(schema[f].choices)) :
                  Get(schema[f].choices)[c] # Get(token.value)
      [] OTHER -> FALSE

\* the option field f, not required, has a Type failure
TypeFailure(f) ==
    /\ ~schema[f].required
    /\ schema[f].parse = "none"
    /\ \E j \in 1..Len(optionTokens) :
          NamesField(optionTokens[j], f) /\ WrongValue(optionTokens[j], f)

\* the option field f, required, is named by no token of argv
RequiredFailure(f) ==
    schema[f].type # "positional" /\ schema[f].required /\ Unnamed(f)

\* C2: when resolveArgs has ended, it has returned one error list; the list
\* is in declaration order of the fields with the conflict error last, it is
\* empty only if no field has a failure, and it holds the Required failure of
\* every required option field argv does not name and the Type failure of
\* every option field given a value that is not of its type, whatever
\* happened to the fields declared before it.
C2_ErrorAggregation ==
    ResolveEnded =>
       /\ pc = "resolved"
       /\ ErrorsInDeclarationOrder
       /\ \A f \in 1..Len(schema) :
             /\ RequiredFailure(f) =>
                   \E i \in 1..Len(errors) :
                      errors[i].type = "required" /\ errors[i].field = f
             /\ TypeFailure(f) =>
                   \E i \in 1..Len(errors) :
                      errors[i].type = "type" /\ errors[i].field = f

\* the position in argv of the first `--`, 0 if there is none
FirstTerminator ==
    IF \E k \in 1..Len(args) : args[k] = TERMINATOR
    THEN CHOOSE k \in 1..Len(args) :
            args[k] = TERMINATOR /\ \A m \in 1..(k - 1) : args[m] # TERMINATOR
    ELSE 0

\* the argv items that follow the first `--`
AfterTerminator ==
    IF FirstTerminator = 0 THEN <<>>
    ELSE SubSeq(args, FirstTerminator + 1, Len(args))

\* the argv position, from 1, of a token of the token list
ArgOfToken(token) ==
    1 + tokenArgs[CHOOSE j \in 1..Len(tokens) : tokens[j] = token]

\* C3: rest is exactly the argv items that follow the first `--`, in order,
\* and no positional of the result is one of those items.
C3_RestFollowsTerminator ==
    pc = "resolved" =>
       /\ rest = AfterTerminator
       /\ \A j \in 1..Len(positionalTokens) :
             FirstTerminator # 0 =>
                ArgOfToken(positionalTokens[j]) < FirstTerminator

\* ------------------------------------------------- the option fields
\* the option token is typed for field f: its long name (kebab-case when
\* toKebab applies), its negated form for a negatable Boolean, or its alias
TypedFor(token, f) ==
    /\ IsDefined(token.rawName)
    /\ IF StartsWith(Get(token.rawName), LONG_OPTION_PREFIX)
       THEN \/ token.name = Some(ArgName(f))
            \/ /\ schema[f].type = "boolean"
               /\ schema[f].negatable
               /\ token.name = Some(NO_PREFIX \o ArgName(f))
       ELSE token.name = schema[f].short

RECURSIVE InArgvOrder(_)
\* the tokens of ts in the order they were typed: by index, and for one
\* index in the order of ts
InArgvOrder(ts) ==
    IF ts = <<>> THEN <<>>
    ELSE LET first == CHOOSE i \in {ts[j].index : j \in 1..Len(ts)} :
                         \A j \in 1..Len(ts) : i <= ts[j].index
             IsFirst(t) == t.index = first
             IsLater(t) == t.index # first
         IN  SelectSeq(ts, IsFirst) \o InArgvOrder(SelectSeq(ts, IsLater))

\* the option tokens typed for field f that coerce to a value, as typed
AcceptedFor(f) ==
    LET Accepted(t) ==
            /\ TypedFor(t, f)
            /\ ~validateRequire(t, f)
            /\ parse(t, ArgName(f), f).error = <<>>
    IN  InArgvOrder(SelectSeq(optionTokens, Accepted))

\* the values the accepted tokens of field f coerce to, as typed
CoercedFor(f) ==
    [j \in 1..Len(AcceptedFor(f)) |-> parse(AcceptedFor(f)[j], ArgName(f), f).value]

\* C11: for an option field with `multiple`, values[field] is the list of
\* the coerced values of its matching tokens in the order they were typed in
\* argv; without `multiple`, it is the value of the match typed last.
C11_MultipleInArgvOrder ==
    pc = "resolved" =>
       \A f \in 1..Len(schema) :
          (schema[f].type # "positional" /\ CoercedFor(f) # <<>>) =>
             values[f] = IF schema[f].multiple
                         THEN ArrayValue(CoercedFor(f))
                         ELSE CoercedFor(f)[Len(CoercedFor(f))]

\* some option token is typed for field f
Typed(f) == \E j \in 1..Len(optionTokens) : TypedFor(optionTokens[j], f)

\* some option token typed for field f supplies a value: for a Boolean the
\* token itself, for the other types a value that is not empty
Supplied(f) ==
    \E j \in 1..Len(optionTokens) :
       /\ TypedFor(optionTokens[j], f)
       /\ \/ schema[f].type = "boolean"
          \/ /\ IsDefined(optionTokens[j].value)
             /\ Get(optionTokens[j].value) # <<>>

\* C12: an option field with a default and no matching token has the default
\* as its value and is not explicit; when a matching token supplies a value,
\* even one equal to the default, the field is explicit.
C12_DefaultIsNotExplicit ==
    pc = "resolved" =>
       \A f \in 1..Len(schema) :
          (schema[f].type # "positional" /\ ~IsNullish(schema[f].default)) =>
             /\ ~Typed(f) => values[f] = schema[f].default /\ ~explicit[f]
             /\ Supplied(f) => explicit[f]

\* the positional fields declared before field f
PositionalsBefore(f) == {g \in 1..(f - 1) : schema[g].type = "positional"}

\* the place in positionals of the entry the positional field f is given:
\* one past the skipped ones and one per positional field declared before
\* it; past the end after a field that takes all the entries
CursorOf(f) ==
    IF \E g \in PositionalsBefore(f) : schema[g].multiple
    THEN Len(positionalTokens)
    ELSE (IF skipPositionalIndex > SKIP_POSITIONAL_DEFAULT
          THEN getPositionalSkipIndex + 1 ELSE 0)
         + Cardinality(PositionalsBefore(f))

\* a token typed by the user is bound to field f: for a positional field an
\* entry of positionals at its cursor, for an option field a matching option
\* token that is not refused for lacking the value of a required field
Bound(f) ==
    IF schema[f].type = "positional"
    THEN CursorOf(f) < Len(positionalTokens)
    ELSE \E j \in 1..Len(optionTokens) :
            TypedFor(optionTokens[j], f) /\ ~validateRequire(optionTokens[j], f)

\* C13: explicit has one boolean entry per schema key, and the entry of a
\* field is true if and only if a token typed by the user was bound to the
\* field; a default never makes it true.
C13_ExplicitIffBound ==
    pc = "resolved" =>
       /\ DOMAIN explicit = 1..Len(schema)
       /\ \A f \in 1..Len(schema) :
             /\ explicit[f] \in BOOLEAN
             /\ explicit[f] <=> Bound(f)

\* --------------------------------------------------------- conflicts
\* the conflict errors of the error list
ConflictErrors == SelectSeq(errors, LAMBDA e : e.type = "conflict")

\* field f is explicit and entry i of its `conflicts` is the key of a field
\* that is explicit too
ConflictAt(f, i) ==
    /\ explicit[f]
    /\ i \in 1..Len(schema[f].conflicts)
    /\ \E g \in 1..Len(schema) :
          schema[g].key = schema[f].conflicts[i] /\ explicit[g]

\* the names field g can be typed by
TypedNames(g) ==
    {LONG_OPTION_PREFIX \o ArgName(g)}
    \cup (IF IsDefined(schema[g].short)
          THEN {<<HYPHEN_CHAR>> \o Get(schema[g].short)} ELSE {})

\* C14: the conflict pass reports at most one Conflict error: that of the
\* first conflicting pair, in declaration order of the fields and, for one
\* field, in the order of its `conflicts` entries.
C14_FirstConflictOnly ==
    pc = "resolved" =>
       /\ Len(ConflictErrors) <= 1
       /\ \A f \in 1..Len(schema), i \in 1..3 :
             ( /\ ConflictAt(f, i)
               /\ \A g \in 1..Len(schema), j \in 1..3 :
                     ConflictAt(g, j) => (f < g \/ (f = g /\ i <= j)) )
             => /\ Len(ConflictErrors) = 1
                /\ ConflictErrors[1].field = f
                /\ ConflictErrors[1].message[1] \in TypedNames(f)
                /\ ConflictErrors[1].message[2]
                      \in TypedNames(FieldOfKey(schema[f].conflicts[i]))

\* several pairs conflict, and the call has returned
C14_Witness ==
    /\ pc = "resolved"
    /\ ConflictAt(1, 1) /\ ConflictAt(1, 2) /\ ConflictAt(2, 1)
    /\ args = << <<"-", "-", "a">>, <<"-", "-", "b">>, <<"-", "-", "c">> >>
    /\ schema[1].conflicts = <<ConflictKeys[2], ConflictKeys[3]>>
    /\ Len(ConflictErrors) = 1

\* some field the user typed lists in `conflicts` the key of another field
\* the user typed
TypedConflict ==
    \E f \in 1..Len(schema), g \in 1..Len(schema) :
       /\ f # g
       /\ Bound(f) /\ Bound(g)
       /\ \E i \in 1..Len(schema[f].conflicts) : schema[f].conflicts[i] = schema[g].key

\* C15: a Conflict error is reported if and only if some explicit field lists
\* in `conflicts` another schema key that is explicit too: one side declaring
\* it is enough, a field present only through its default never conflicts,
\* and an entry that is no schema key never triggers.
C15_ConflictIffBothTyped ==
    pc = "resolved" => (ConflictErrors # <<>> <=> TypedConflict)

\* the conflict is declared on one side only and is reported
C15_Witness ==
    /\ pc = "resolved"
    /\ ConflictErrors # <<>>
    /\ schema[1].conflicts = <<ConflictKeys[2]>>
    /\ schema[2].conflicts = <<>>
    /\ schema[3].conflicts = <<>>

\* a field that conflicts is present through its default only, and a
\* `conflicts` entry is no schema key: nothing is reported
C15_WitnessDefault ==
    /\ pc = "resolved"
    /\ ConflictErrors = <<>>
    /\ explicit[1] /\ ~explicit[2] /\ explicit[3]
    /\ schema[1].conflicts = <<ConflictKeys[2]>>
    /\ values[2] = BooleanValue(TRUE)

\* ---------------------------------------------------- required fields
\* the option token matches field f by its alias or by its long name
MatchedByName(token, f) ==
    /\ IsDefined(token.rawName)
    /\ IF StartsWith(Get(token.rawName), LONG_OPTION_PREFIX)
       THEN token.name = Some(ArgName(f))
       ELSE token.name = schema[f].short

\* the Required errors of field f
RequiredErrors(f) ==
    SelectSeq(errors, LAMBDA e : e.type = "required" /\ e.field = f)

\* C16: a required option field that no token matches by its alias or by its
\* long name (its kebab-case name when toKebab applies) produces exactly one
\* Required error and gets no value, and the fields after it are resolved.
C16_RequiredUnmatched ==
    pc = "resolved" =>
       \A f \in 1..Len(schema) :
          ( /\ schema[f].type # "positional"
            /\ schema[f].required
            /\ \A j \in 1..Len(optionTokens) : ~MatchedByName(optionTokens[j], f) )
          => /\ Len(RequiredErrors(f)) = 1
             /\ IsNullish(values[f])
             /\ \A g \in (f + 1)..Len(schema) : explicit[g] <=> Bound(g)

\* ------------------------------------------------------------ coercion
\* the option tokens typed for field f, as optionTokens holds them
TokensFor(f) == SelectSeq(optionTokens, LAMBDA t : TypedFor(t, f))

\* the Type errors of field f
TypeErrors(f) == SelectSeq(errors, LAMBDA e : e.type = "type" /\ e.field = f)

\* the token carries a numeric literal: digits, after a sign or not
HasNumericLiteral(t) ==
    /\ IsDefined(t.value)
    /\ LET digits == IF Get(t.value) # <<>> /\ Head(Get(t.value)) = HYPHEN_CHAR
                     THEN Tail(Get(t.value)) ELSE Get(t.value)
       IN  /\ digits # <<>>
           /\ \A j \in 1..Len(digits) :
                 digits[j] \in {"0", "1", "2", "3", "4", "5", "6", "7", "8", "9"}

\* the value field f is left with when no token gave it one
NoUserValue(f) == {UndefinedValue, schema[f].default}

\* C17: a Number field takes the value of a matched token only if it is a
\* non-empty numeric literal, converted to that number; every matched token
\* with any other value, an empty inline value included, yields one Type
\* error for the field and gives it no value.
C17_NumberNeedsLiteral ==
    ResolveEnded =>
       \A f \in 1..Len(schema) :
          (schema[f].type = "number" /\ schema[f].parse = "none") =>
             LET good == SelectSeq(TokensFor(f), HasNumericLiteral)
                 bad == SelectSeq(TokensFor(f), LAMBDA t : ~HasNumericLiteral(t))
                 numbers == [j \in 1..Len(good) |->
                               NumberValue(ToNumber(Get(good[j].value)))]
             IN  /\ Len(TypeErrors(f)) = Len(bad)
                 /\ IF good = <<>> THEN values[f] \in NoUserValue(f)
                    ELSE IF schema[f].multiple THEN values[f] = ArrayValue(numbers)
                    ELSE values[f] = numbers[Len(numbers)]

\* the value of the token is one of the declared choices of field f
IsMember(t, f) ==
    /\ IsDefined(t.value)
    /\ \E c \in 1..Len(Get(schema[f].choices)) : Get(schema[f].choices)[c] = Get(t.value)

\* the token brings no value to the required field f: none, or an empty one
LacksRequiredValue(t, f) ==
    schema[f].required /\ (~IsDefined(t.value) \/ Get(t.value) = <<>>)

\* every Type error of field f lists the choices of the field
ListsChoices(f) ==
    \A i \in 1..Len(TypeErrors(f)) :
       \A c \in 1..Len(Get(schema[f].choices)) :
          \E m \in 1..Len(TypeErrors(f)[i].message) :
             TypeErrors(f)[i].message[m] = Get(schema[f].choices)[c]

\* the value of an enum field: that of its last member token, or the list
\* of them, and no user value without one
EnumValueIs(f, members) ==
    LET chosen == [j \in 1..Len(members) |-> StringValue(Get(members[j].value))]
    IN  IF members = <<>> THEN values[f] \in NoUserValue(f)
        ELSE IF schema[f].multiple THEN values[f] = ArrayValue(chosen)
        ELSE values[f] = chosen[Len(chosen)]

\* an enum field that declares its choices and no callback
IsEnumField(f) ==
    /\ schema[f].type = "enum"
    /\ IsDefined(schema[f].choices)
    /\ schema[f].parse = "none"

IsBooleanField(f) == schema[f].type = "boolean" /\ schema[f].parse = "none"

\* the token typed for field f is its negated form: the name starts with `no-`
NegatedForm(t) == StartsWith(Get(t.name), NO_PREFIX)

\* the Boolean a token typed for the field stands for: false for the negated
\* form, true otherwise, whatever value the token carries
StandsFor(t) == BooleanValue(~NegatedForm(t))

\* the Booleans the tokens typed for field f stand for, in token order
Flags(f) == [j \in 1..Len(TokensFor(f)) |-> StandsFor(TokensFor(f)[j])]

\* how many items of the sequence are the value v
CountOf(seq, v) == Cardinality({j \in 1..Len(seq) : seq[j] = v})

\* C19: a Boolean field that a token is typed for resolves to false when the
\* token is the negated form (`no-` name on a negatable field) and to true
\* otherwise, and a value carried by the token never changes that: the field
\* gets one of the Booleans its tokens stand for, and with `multiple` one
\* Boolean for each token.
C19_BooleanByNameOnly ==
    pc = "resolved" =>
       \A f \in 1..Len(schema) :
          (IsBooleanField(f) /\ TokensFor(f) # <<>>) =>
             IF schema[f].multiple
             THEN /\ values[f].t = "array"
                  /\ Len(values[f].items) = Len(Flags(f))
                  /\ \A b \in BOOLEAN :
                        CountOf(values[f].items, BooleanValue(b))
                           = CountOf(Flags(f), BooleanValue(b))
             ELSE \E j \in 1..Len(Flags(f)) : values[f] = Flags(f)[j]

\* ------------------------------------------------- parse callbacks
\* the tokens field f is resolved from: for a positional field the entries
\* of positionals at its cursor (all of them with `multiple`, else one), for
\* an option field the option tokens typed for it
TokensGiven(f) ==
    IF schema[f].type = "positional"
    THEN SubSeq(positionalTokens, CursorOf(f) + 1,
                IF schema[f].multiple \/ CursorOf(f) >= Len(positionalTokens)
                THEN Len(positionalTokens) ELSE CursorOf(f) + 1)
    ELSE TokensFor(f)

\* the token has something for the callback of field f: a Boolean field goes
\* by the name of the token, the other fields need its value
CarriesInput(t, f) == schema[f].type = "boolean" \/ IsDefined(t.value)

\* the string the callback of field f is to be given for the token: 'true'
\* or 'false' of the negation state for a Boolean, else the raw value
GivenTo(t, f) ==
    IF schema[f].type = "boolean"
    THEN (IF NegatedForm(t) THEN <<"f", "a", "l", "s", "e">> ELSE <<"t", "r", "u", "e">>)
    ELSE Get(t.value)

\* what the callback of field f returns for the tokens it does not throw on
Returned(f) ==
    LET kept == SelectSeq(TokensGiven(f),
                          LAMBDA t : ~ParseThrows(schema[f].parse, GivenTo(t, f)))
    IN  [j \in 1..Len(kept) |-> ParsedValue(GivenTo(kept[j], f))]

\* the errors the callback of field f threw
ThrownErrors(f) == SelectSeq(errors, LAMBDA e : e.type = "thrown" /\ e.field = f)

\* the two sequences hold the same items, each as many times
SameItems(xs, ys) ==
    /\ Len(xs) = Len(ys)
    /\ \A j \in 1..Len(xs) : CountOf(xs, xs[j]) = CountOf(ys, xs[j])

\* C20: a field that declares `parse` (String, Number, Boolean, Enum, Custom
\* or positional) is resolved by the callback alone: every token of the
\* field is passed to it, by its raw value or, for a Boolean, as 'true' or
\* 'false' of its negation state; what the callback returns is what values
\* holds (one return value, or with `multiple` all of them), and what it
\* throws is an error of the list.
C20_CallbackReplacesCoercion ==
    pc = "resolved" =>
       \A f \in 1..Len(schema) :
          (/\ schema[f].parse # "none"
           /\ \A j \in 1..Len(TokensGiven(f)) : CarriesInput(TokensGiven(f)[j], f)) =>
             /\ Len(ThrownErrors(f)) = Len(TokensGiven(f)) - Len(Returned(f))
             /\ Returned(f) # <<>> =>
                   IF schema[f].multiple
                   THEN values[f].t = "array" /\ SameItems(values[f].items, Returned(f))
                   ELSE \E j \in 1..Len(Returned(f)) : values[f] = Returned(f)[j]

\* ------------------------------------------------- positional fields
\* the positional fields, in declaration order
PositionalFields ==
    LET IsPositional(f) == schema[f].type = "positional"
    IN  SelectSeq([f \in 1..Len(schema) |-> f], IsPositional)

\* the position in `positionals`, from 0, the first positional field binds:
\* one past skipPositional, and 0 for every skipPositional below 0
FirstBound == IF resolveOptions.skipPositional < 0 THEN 0 ELSE resolveOptions.skipPositional + 1

\* the position in `positionals`, from 0, the i-th positional field binds
\* when every positional field before it takes one entry
BoundPosition(i) == FirstBound + (i - 1)

\* the i-th positional field comes after no positional field with `multiple`
NoneTakesAllBefore(i) == \A h \in 1..(i - 1) : ~schema[PositionalFields[h]].multiple

\* the plain items of argv before the first `--`
PlainItemsTyped ==
    LET stop == IF FirstTerminator = 0 THEN Len(args) ELSE FirstTerminator - 1
    IN  SelectSeq(SubSeq(args, 1, stop),
                  LAMBDA arg : arg = <<>> \/ Head(arg) # HYPHEN_CHAR)

\* field f is reported as missing: one Required error, no value, not explicit
ReportedMissing(f) ==
    /\ Len(RequiredErrors(f)) = 1
    /\ values[f] = UndefinedValue
    /\ ~explicit[f]

\* field f is given the entries of `positionals` from position p, from 0:
\* one entry, or with `multiple` all of them
GivenFrom(f, p) ==
    /\ RequiredErrors(f) = <<>>
    /\ explicit[f]
    /\ values[f] = IF schema[f].multiple
                   THEN ArrayValue([j \in 1..(Len(resultPositionals) - p) |->
                                       StringValue(resultPositionals[p + j])])
                   ELSE StringValue(resultPositionals[p + 1])

\* C21 as stated: skipPositional = k counts from -1: for k >= 0 the first
\* positional field binds position k + 1 of `positionals` and the later ones
\* the following positions, for k < -1 as for -1 the first one binds
\* position 0; a positional field whose position is past the end is reported
\* as missing; the skipped entries stay in `positionals`.
C21_SkipPositional ==
    pc = "resolved" =>
       /\ resultPositionals = PlainItemsTyped
       /\ \A i \in 1..Len(PositionalFields) :
             NoneTakesAllBefore(i) =>
                IF BoundPosition(i) < Len(resultPositionals)
                THEN GivenFrom(PositionalFields[i], BoundPosition(i))
                ELSE ReportedMissing(PositionalFields[i])

\* field f is left empty without being reported
LeftEmpty(f) ==
    /\ RequiredErrors(f) = <<>>
    /\ values[f] = UndefinedValue
    /\ ~explicit[f]

\* C21, amended: as stated, except that a `multiple` positional field that is
\* not `required` is left empty, and not reported as missing, when its
\* position is past the end.
C21_SkipPositionalOptionalList ==
    pc = "resolved" =>
       /\ resultPositionals = PlainItemsTyped
       /\ \A i \in 1..Len(PositionalFields) :
             NoneTakesAllBefore(i) =>
                LET f == PositionalFields[i]
                IN  IF BoundPosition(i) < Len(resultPositionals)
                    THEN GivenFrom(f, BoundPosition(i))
                    ELSE IF schema[f].multiple /\ ~schema[f].required
                    THEN LeftEmpty(f)
                    ELSE ReportedMissing(f)

\* two positional fields that take one entry each, skipPositional 0, three
\* different plain items: the first entry is skipped and stays in
\* `positionals`
C21_Witness ==
    /\ pc = "resolved"
    /\ resolveOptions.skipPositional = 0
    /\ Len(PositionalFields) = 2
    /\ \A i \in 1..2 : ~schema[PositionalFields[i]].multiple
    /\ Len(resultPositionals) = 3
    /\ resultPositionals[1] # resultPositionals[2]
    /\ resultPositionals[2] # resultPositionals[3]
    /\ values[PositionalFields[1]] = StringValue(resultPositionals[2])
    /\ values[PositionalFields[2]] = StringValue(resultPositionals[3])

\* skipPositional at the number of positionals: the field is reported
C21_WitnessBeyond ==
    /\ pc = "resolved"
    /\ resolveOptions.skipPositional = 2
    /\ Len(resultPositionals) = 2
    /\ ReportedMissing(PositionalFields[1])

\* ------------------------------------------------- calling it twice
\* the call of resolveArgs that is running or has returned, from 1
ThisCall == Len(calls)

\* C22: a call of resolveArgs changes neither the tokens of the list it is
\* given (their values included) nor the schema, at any step of the call,
\* and a call that returns after an earlier call with the same arguments
\* returns a result equal to the earlier one.
C22_SameResultInputsKept ==
    ThisCall > 0 =>
       /\ tokens = calls[ThisCall].tokens
       /\ schema = calls[ThisCall].schema
       /\ \A c \in 1..(ThisCall - 1) :
             /\ calls[c].tokens = tokens
             /\ calls[c].schema = schema
             /\ pc = "resolved" => result = Get(calls[c].result)

\* the second call has returned; the first one bound a positional token as
\* the value of a pending option and flushed another one without a value
C22_Witness ==
    /\ pc = "resolved"
    /\ ThisCall = 2
    /\ positionalItemCount > Len(positionalTokens) + Len(rest)
    /\ \E j \in 1..Len(optionTokens) : ~IsDefined(optionTokens[j].value)

\* ------------------------------------------------- rejoining the tokens
\* the argv item is a positional: it does not begin with `-`
IsPlainItem(arg) == ~StartsWith(arg, <<HYPHEN_CHAR>>)

\* the argv item is a long option of the form `--name=value`: the prefix,
\* a name that is not empty, and `=`
IsLongWithValue(arg) ==
    /\ StartsWith(arg, LONG_OPTION_PREFIX)
    /\ FirstEqual(arg) >= 3

\* the item rebuilt from the token is the argv item: a positional gives its
\* value, an option gives rawName + '=' + value
RebuildsTo(token, arg) ==
    CASE token.kind = "positional" -> token.value = Some(arg)
      [] token.kind = "option" ->
            /\ IsDefined(token.rawName)
            /\ IsDefined(token.value)
            /\ Get(token.rawName) \o <<EQUAL_CHAR>> \o Get(token.value) = arg
      [] OTHER -> FALSE

\* C23: for an argv made only of positionals and of long options of the
\* form `--name=value`, parseArgs returns one token for each item, and the
\* item rebuilt from each token is the argv item at the same place.
C23_RejoinGivesArgv ==
    (/\ pc = "tokenized"
     /\ \A k \in 1..Len(args) : IsPlainItem(args[k]) \/ IsLongWithValue(args[k])) =>
       /\ Len(tokens) = Len(args)
       /\ \A k \in 1..Len(args) : RebuildsTo(tokens[k], args[k])

\* ------------------------------------------------- grouped flags
\* C24: with shortGrouping on and every flag of a group declared Boolean,
\* the call on the argv whose groups are typed as separate arguments
\* (`-a -b -c` for `-abc`) returns the values and the explicit flags that the
\* call on the grouped argv returned.
C24_GroupedAsSeparate ==
    (pc = "resolved" /\ ThisCall = 2) =>
       /\ values = Get(calls[1].result).values
       /\ explicit = Get(calls[1].result).explicit

\* the group `-abc` was resolved, then `-a -b -c`, and the three flags are set
C24_Witness ==
    /\ pc = "resolved"
    /\ ThisCall = 2
    /\ \E k \in 1..Len(args) : k + 2 <= Len(args) /\ \A j \in 0..2 : isShortOption(args[k + j])
    /\ Len(calls[1].tokens) < Len(tokens) + 2
    /\ \A f \in 1..3 : explicit[f] /\ Get(calls[1].result).explicit[f]

\* ------------------------------------------------- errors and the other fields
\* the field of the round of the field loop that is about to run, 0 when the
\* loop is over and the conflict check is about to run
FieldInHand == IF cursor < Len(schema) THEN cursor + 1 ELSE 0

\* the step leaves the value and the explicit flag of every field but f
OthersKept(f) ==
    \A g \in 1..Len(schema) :
       g # f => values'[g] = values[g] /\ explicit'[g] = explicit[g]

\* C25: whatever errors the resolution of a field adds (Required, Type) and
\* whatever the conflict check adds, the step goes on to the next field or
\* to the result, and it neither removes nor changes the value and the
\* explicit flag of any other field: the result holds them when error is
\* defined.
C25_ErrorsKeepOtherFields ==
    [][pc = "resolve" => (pc' \in {"resolve", "resolved"} /\ OthersKept(FieldInHand))]_vars

\* ------------------------------------------------- parse
\* C26: parse(argv, options) returns the values, positionals, rest, error
\* and explicit that resolveArgs(options.args, parseArgs(argv,
\* { allowCompatible }), { shortGrouping, skipPositional, toKebab }) returns
\* with the three options taken from `options`, and its tokens are those of
\* parseArgs(argv, { allowCompatible }).
C26_ParseIsResolveOfParseArgs ==
    (pc = "resolved" /\ ThisCall = 2) =>
       /\ result = Get(calls[1].result)
       /\ tokens = calls[1].tokens

\* ------------------------------------- a positional after a pending option
\* the analyze phase is about to take a positional token while an option is
\* pending
PositionalMeetsPending ==
    /\ pc = "analyze"
    /\ cursor < Len(tokens)
    /\ tokens[cursor + 1].kind = "positional"
    /\ IsDefined(currentShortOption) \/ IsDefined(currentLongOption)

\* the pending option the positional token meets: the short one if there is
\* one, else the long one
Pending ==
    IF IsDefined(currentShortOption) THEN Get(currentShortOption)
    ELSE Get(currentLongOption)

\* the pending option is typed for a field declared Boolean: by its long
\* name (in kebab-case under toKebab), its negated form, or its alias
PendingIsBoolean ==
    \E f \in 1..Len(schema) : schema[f].type = "boolean" /\ TypedFor(Pending, f)

\* the step pushes the pending option as one option token more, and no
\* option is pending after it
PendingFlushed ==
    /\ Len(optionTokens') = Len(optionTokens) + 1
    /\ optionTokens'[Len(optionTokens')].name = Pending.name
    /\ currentShortOption' = Undefined
    /\ currentLongOption' = Undefined

\* C27: a positional token that meets a pending option typed for a field
\* declared Boolean (long name, kebab-case name under toKebab, negated form
\* or alias) is added to `positionals`, and the pending option is pushed
\* without the value of that token.
C27_BooleanLeavesPositional ==
    [][(PositionalMeetsPending /\ PendingIsBoolean) =>
          /\ positionalTokens' = Append(positionalTokens, tokens[cursor + 1])
          /\ PendingFlushed
          /\ IsDefined(currentLongOption) =>
                optionTokens'[Len(optionTokens')].value = Undefined]_vars

\* the pending option is a valueless long or short option typed for an
\* option field that is not declared Boolean
PendingTakesValue ==
    /\ IsDefined(currentShortOption) => expandableShortOptions = <<>>
    /\ \E f \in 1..Len(schema) :
          /\ schema[f].type \notin {"boolean", "positional"}
          /\ TypedFor(Pending, f)

\* C28: a positional token that meets a pending valueless long or short
\* option typed for a field that is not Boolean is bound as the value of
\* that option, which is pushed with it, and is not added to `positionals`.
C28_PositionalBoundAsValue ==
    [][(PositionalMeetsPending /\ PendingTakesValue) =>
          /\ positionalTokens' = positionalTokens
          /\ optionTokens'
                = Append(optionTokens, [Pending EXCEPT !.value = tokens[cursor + 1].value])
          /\ currentShortOption' = Undefined
          /\ currentLongOption' = Undefined]_vars

\* the argv item at position i, typed before any `--`, is a short group:
\* `-`, a flag, and one or more characters that follow it, none of them `=`
IsShortGroupArg(i) ==
    /\ isShortOptionGroup(args[i])
    /\ \A j \in 2..Len(args[i]) : args[i][j] # EQUAL_CHAR
    /\ FirstTerminator = 0 \/ i < FirstTerminator

\* the characters that follow the first flag of the short group
FollowingChars(i) == SubSeq(args[i], 3, Len(args[i]))

\* the option tokens the resolver assembled from the argv item at position i
OptionTokensAt(i) == SelectSeq(optionTokens, LAMBDA t : t.index = i - 1)

\* C29: with shortGrouping off, a short group gives one option: the first
\* flag, with the characters that follow it as its value, and a String field
\* with that alias that nothing else was typed for resolves to that string;
\* the characters that follow are no options of their own.
C29_GroupIsFlagAndValue ==
    (pc = "resolved" /\ ~resolveOptions.shortGrouping) =>
       \A i \in 1..Len(args) :
          IsShortGroupArg(i) =>
             /\ Len(OptionTokensAt(i)) = 1
             /\ OptionTokensAt(i)[1].name = Some(<<args[i][2]>>)
             /\ OptionTokensAt(i)[1].value = Some(FollowingChars(i))
             /\ \A f \in 1..Len(schema) :
                   ( /\ schema[f].type = "string"
                     /\ schema[f].short = Some(<<args[i][2]>>)
                     /\ TokensFor(f) = OptionTokensAt(i) ) =>
                      values[f] = StringValue(FollowingChars(i))

\* ------------------------------------------- the cursor over `positionals`
\* the position in `positionals`, from 0, the cursor is at when the i-th
\* positional field is reached: FirstBound for the first one, one further
\* after a field that takes one entry, the end after a `multiple` field
RECURSIVE CursorAt(_)
CursorAt(i) ==
    IF i = 1 THEN FirstBound
    ELSE IF schema[PositionalFields[i - 1]].multiple
         THEN Max(CursorAt(i - 1), Len(resultPositionals))
         ELSE CursorAt(i - 1) + 1

\* field f took no entry of `positionals`
TookNothing(f) == values[f] = UndefinedValue /\ ~explicit[f]

\* C30: the positional fields are filled from `positionals`, which holds the
\* plain items in argv order whatever options are typed between them, by a
\* cursor that follows declaration order: a field that is not `multiple`
\* takes the entry at the cursor, a `multiple` field every entry from the
\* cursor on, in order, and a field that finds the cursor at the end takes
\* nothing.
C30_CursorFollowsDeclaration ==
    pc = "resolved" =>
       /\ resultPositionals = PlainItemsTyped
       /\ \A i \in 1..Len(PositionalFields) :
             IF CursorAt(i) < Len(resultPositionals)
             THEN GivenFrom(PositionalFields[i], CursorAt(i))
             ELSE TookNothing(PositionalFields[i])

\* `x --a y` for a `multiple` positional field, the flag, and a second
\* positional field: the first takes both items, the second nothing
C30_Witness ==
    /\ pc = "resolved"
    /\ resolveOptions.skipPositional = SKIP_POSITIONAL_DEFAULT
    /\ Len(schema) = 3
    /\ schema[1].type = "positional" /\ schema[1].multiple
    /\ schema[2].type = "boolean"
    /\ schema[3].type = "positional"
    /\ Len(args) = 3
    /\ isLongOption(args[2])
    /\ resultPositionals = <<args[1], args[3]>>
    /\ args[1] # args[3]
    /\ values[1] = ArrayValue(<<StringValue(args[1]), StringValue(args[3])>>)
    /\ values[2] = BooleanValue(TRUE)
    /\ TookNothing(3)

\* a field that takes one entry before a `multiple` field that takes the rest
C30_WitnessRest ==
    /\ pc = "resolved"
    /\ resolveOptions.skipPositional = SKIP_POSITIONAL_DEFAULT
    /\ Len(PositionalFields) = 2
    /\ ~schema[PositionalFields[1]].multiple
    /\ schema[PositionalFields[2]].multiple
    /\ Len(resultPositionals) = 3
    /\ values[PositionalFields[1]] = StringValue(resultPositionals[1])
    /\ values[PositionalFields[2]]
          = ArrayValue(<<StringValue(resultPositionals[2]), StringValue(resultPositionals[3])>>)

\* ------------------------------------------- positional fields left out
\* C31: a positional field that finds no entry of `positionals` at its cursor
\* yields one Required error when it is declared `required` and none when it
\* is not, whether it is `multiple` or takes one entry.
C31_MissingReportedIffRequired ==
    pc = "resolved" =>
       \A i \in 1..Len(PositionalFields) :
          CursorAt(i) >= Len(resultPositionals) =>
             Len(RequiredErrors(PositionalFields[i]))
                = IF schema[PositionalFields[i]].required THEN 1 ELSE 0

\* ------------------------------------------------ callbacks that throw
\* the string the callback of field f is given for the token: its value, and
\* the empty string for a token without one when no default is declared
InputOf(t, f) ==
    IF schema[f].type = "boolean" THEN GivenTo(t, f)
    ELSE IF IsDefined(t.value) THEN Get(t.value)
    ELSE StringOf(schema[f].default)

\* the tokens of field f its callback throws on, and those it takes
Refused(f) ==
    SelectSeq(TokensGiven(f), LAMBDA t : ParseThrows(schema[f].parse, InputOf(t, f)))

Taken(f) ==
    SelectSeq(TokensGiven(f), LAMBDA t : ~ParseThrows(schema[f].parse, InputOf(t, f)))

\* what field f holds after its callback ran on each of its tokens: with
\* `multiple` what it returned for the tokens it took, in order, else what
\* it returned last
KeptValue(f) ==
    LET kept == [j \in 1..Len(Taken(f)) |-> ParsedValue(InputOf(Taken(f)[j], f))]
    IN  IF schema[f].multiple
        THEN (IF kept = <<>> /\ (schema[f].type # "positional" \/ TokensGiven(f) = <<>>)
              THEN UndefinedValue ELSE ArrayValue(kept))
        ELSE (IF kept = <<>> THEN UndefinedValue ELSE kept[Len(kept)])

\* C32: resolveArgs never throws what a callback threw: each error a callback
\* throws is in the error list as thrown, in the order of the tokens; the
\* field keeps what the callback returned for its other tokens (for a
\* `multiple` positional field every other value), and the fields without a
\* callback are resolved as typed.
C32_ThrownErrorsCollected ==
    /\ pc # "threw"
    /\ pc = "resolved" =>
          \A f \in 1..Len(schema) :
             IF schema[f].parse # "none"
             THEN /\ ThrownErrors(f)
                        = [j \in 1..Len(Refused(f)) |-> ThrownError(f, InputOf(Refused(f)[j], f))]
                  /\ values[f] = KeptValue(f)
             ELSE /\ explicit[f] = (TokensFor(f) # <<>>)
                  /\ values[f] = IF TokensFor(f) # <<>> THEN BooleanValue(TRUE)
                                 ELSE UndefinedValue

\* `x 1 --b`, the `multiple` positional field declared first and the flag
\* after it: the callback threw on x, 1 is stored, and the flag is set
C32_Witness ==
    /\ pc = "resolved"
    /\ schema[1].type = "positional" /\ schema[1].multiple
    /\ Len(TokensGiven(1)) = 2
    /\ Len(Refused(1)) = 1
    /\ TokensGiven(1)[1] = Refused(1)[1]
    /\ Len(ThrownErrors(1)) = 1
    /\ values[1].t = "array" /\ Len(values[1].items) = 1
    /\ \E g \in 2..Len(schema) : schema[g].type = "boolean" /\ values[g] = BooleanValue(TRUE)

\* the Custom option field: one token thrown on, the field after it resolved
C32_WitnessOption ==
    /\ pc = "resolved"
    /\ schema[1].type = "custom"
    /\ Len(ThrownErrors(1)) = 1
    /\ schema[2].type = "positional"
    /\ explicit[2]
    /\ values[2].t \in {"parsed", "array"}

\* ------------------------------------------------------ token indexes
\* C33: along the token list parseArgs returns, the index of a token is never
\* less than the index of a token before it.
C33_IndexesNeverDecrease ==
    pc = "tokenized" =>
       \A i \in 1..Len(tokens) : \A j \in i..Len(tokens) :
          tokens[i].index <= tokens[j].index

\* `-a=1` and an item after it: the option, its value token with the same
\* index, and a token with a greater index
C33_Witness ==
    /\ pc = "tokenized"
    /\ ~allowCompatible
    /\ Len(tokens) = 3
    /\ tokens[2].kind = "option" /\ ~IsDefined(tokens[2].name)
    /\ tokens[1].index = tokens[2].index
    /\ tokens[3].index > tokens[2].index

\* an item and a short group after it, in compatible mode
C33_WitnessCompatible ==
    /\ pc = "tokenized"
    /\ allowCompatible
    /\ Len(args) = 2
    /\ isShortOptionGroup(args[2])
    /\ tokens[1].kind = "positional"
    /\ Len(tokens) >= 3
    /\ tokens[Len(tokens)].index > tokens[1].index

\* --------------------------------------------- the buffer of a short group
\* C34: the buffered characters of a short group belong to the pending short
\* option that opened the group: with none pending the buffer is empty, and
\* every buffered token has the index of the pending one, so that no later
\* short option is given characters of an earlier group.
C34_BufferBelongsToPending ==
    \A j \in 1..Len(expandableShortOptions) :
       /\ IsDefined(currentShortOption)
       /\ expandableShortOptions[j].index = Get(currentShortOption).index

\* ------------------------------------------ tokens of an argv in two parts
\* the tokens with every index raised by n
Raised(ts, n) == [j \in 1..Len(ts) |-> [ts[j] EXCEPT !.index = @ + n]]

\* C35: for argv = A ++ B with no `--` in A, the tokens of argv are the
\* tokens of A followed by the tokens of B with every index raised by the
\* length of A.
C35_TokensOfParts ==
    (pc = "tokenized" /\ Len(calls) = 2) =>
       calls[1].tokens = calls[2].tokens \o Raised(tokens, Len(calls[2].args))

\* ------------------------------------------------- explicit and defaults
\* the value the token t typed for field f gives the field by itself, as a
\* one-item sequence, or none: what the callback returns for the value of
\* the token (for the empty string when the token has no value and the field
\* no default), the Boolean the token stands for, the string of its value
\* (one of the choices for an Enum), or the number of its numeric literal
ValueOfToken(t, f) ==
    IF schema[f].parse # "none"
    THEN (IF /\ CarriesInput(t, f) \/ IsNullish(schema[f].default)
             /\ ~ParseThrows(schema[f].parse, InputOf(t, f))
          THEN <<ParsedValue(InputOf(t, f))>> ELSE <<>>)
    ELSE CASE schema[f].type = "boolean" -> <<StandsFor(t)>>
           [] schema[f].type = "number" ->
                 IF HasNumericLiteral(t) THEN <<NumberValue(ToNumber(Get(t.value)))>> ELSE <<>>
           [] schema[f].type = "enum" ->
                 IF IsMember(t, f) THEN <<StringValue(Get(t.value))>> ELSE <<>>
           [] OTHER -> IF IsDefined(t.value) THEN <<StringValue(Get(t.value))>> ELSE <<>>

\* the values the tokens the user typed for field f give
UserValues(f) ==
    UNION {{ValueOfToken(TokensGiven(f)[j], f)[k] :
               k \in 1..Len(ValueOfToken(TokensGiven(f)[j], f))} :
             j \in 1..Len(TokensGiven(f))}

\* C36: a field that is explicit holds no value, or a value that a token the
\* user typed for it gives (with `multiple` a list of such values): never a
\* value that comes from the declared default alone.
C36_ExplicitValueIsTyped ==
    pc = "resolved" =>
       \A f \in 1..Len(schema) :
          explicit[f] =>
             \/ values[f] = UndefinedValue
             \/ values[f] \in UserValues(f)
             \/ /\ schema[f].multiple
                /\ values[f].t = "array"
                /\ \A k \in 1..Len(values[f].items) : values[f].items[k] \in UserValues(f)

\* --------------------------------------- positionals taken out of the list
\* the pending option is typed for an option field of the schema
PendingIsDeclared ==
    \E f \in 1..Len(schema) : schema[f].type # "positional" /\ TypedFor(Pending, f)

\* C37: a positional token before the terminator is kept out of
\* `positionals` only when an option typed for an option field of the schema
\* is pending, which takes it as its value; after an option the schema does
\* not declare it is added to `positionals`.
C37_OnlyDeclaredOptionsTakeValues ==
    [][(/\ pc = "analyze"
        /\ cursor < Len(tokens)
        /\ tokens[cursor + 1].kind = "positional"
        /\ ~terminated
        /\ positionalTokens' = positionalTokens) =>
          (PositionalMeetsPending /\ PendingIsDeclared)]_vars

\* --------------------------------- a required Boolean typed as `--no-<name>`
\* field f is a required negatable Boolean without callback, and every token
\* typed for it, one at least, is its negated form
OnlyNegated(f) ==
    /\ IsBooleanField(f)
    /\ schema[f].negatable
    /\ schema[f].required
    /\ TokensFor(f) # <<>>
    /\ \A j \in 1..Len(TokensFor(f)) : NegatedForm(TokensFor(f)[j])

\* C38: a required negatable Boolean field typed only as `--no-<name>`
\* resolves to false (with `multiple` to a list of false, one per token), is
\* explicit, and has no Required error.
C38_RequiredNegatedIsFalse ==
    pc = "resolved" =>
       \A f \in 1..Len(schema) :
          OnlyNegated(f) =>
             /\ values[f] = IF schema[f].multiple THEN ArrayValue(Flags(f))
                            ELSE BooleanValue(FALSE)
             /\ explicit[f]
             /\ RequiredErrors(f) = <<>>

\* ------------------------------------------------- the pending options
\* C39: in the analyze phase, after each token, the pending long option and
\* the pending short option are never both set.
C39_OnePendingOption ==
    ~(IsDefined(currentLongOption) /\ IsDefined(currentShortOption))

\* a short option taken while a long option was pending: the long option is
\* pushed without a value and the short option is the pending one
C39_Witness ==
    /\ pc = "analyze"
    /\ cursor = 2
    /\ IsDefined(currentShortOption)
    /\ ~IsDefined(currentLongOption)
    /\ Len(optionTokens) = 1
    /\ StartsWith(Get(optionTokens[1].rawName), LONG_OPTION_PREFIX)
    /\ ~IsDefined(optionTokens[1].value)
    /\ optionTokens[1].index < Get(currentShortOption).index

\* a long option taken while a short option was pending
C39_WitnessLong ==
    /\ pc = "analyze"
    /\ cursor = 2
    /\ IsDefined(currentLongOption)
    /\ ~IsDefined(currentShortOption)
    /\ Len(optionTokens) = 1
    /\ ~StartsWith(Get(optionTokens[1].rawName), LONG_OPTION_PREFIX)
====
